---- MODULE Spec2Model ----
(***************************************************************************)
(* State-machine model of the garment pattern pipeline:                    *)
(*   - MayaGarment (packages/mayaqltools/mayascene.py): load / clean /     *)
(*     update_verts_info / is_static on the Maya scene graph, and the      *)
(*     simulation properties, colliders and not-loaded guards;             *)
(*   - Scene._load_body (mayascene.py): unit inference of the body mesh;   *)
(*   - NNSewingPattern (nn/pattern_converter.py): pattern <-> tensors,     *)
(*     _edge_dict;                                                         *)
(*   - DatasetWrapper (nn/data.py): new_split / load_split, loaders,       *)
(*     standardize_data and the datasets' standardize;                     *)
(*   - GarmentBaseDataset._clean_datapoint_list, _get_norm_stats and       *)
(*     tags_to_stitches (nn/data.py);                                      *)
(*   - BaseDataset.__getitem__ with its caches, the transforms             *)
(*     SampleToTensor and GTtandartization, and the prediction path        *)
(*     save_prediction_batch -> pattern_from_tensors (nn/data.py).         *)
(*                                                                         *)
(* Conventions.  Python indices are kept 0-based as values (vertex ids,    *)
(* edge ids, panel ids, pattern-level edge ids); TLA+ sequences are        *)
(* 1-based, so element i of a Python list l is l[i + 1].  Lengths are in   *)
(* whole centimetres; a tolerance such as atol = 1.5 is compared exactly   *)
(* (2 * |a| <= 3).  Python's None is the string "None" for scalars, -1     *)
(* where the value is otherwise a number, the empty sequence for arrays.   *)
(***************************************************************************)
EXTENDS Integers, Sequences, FiniteSets, TLC

VARIABLES
    component,        \* which object of the program this behaviour drives
    pattern,          \* self.pattern: [panels, stitches], panels in panel_order
    \* ---- MayaGarment ----
    loaded_to_maya,   \* self.loaded_to_maya
    MayaObjects,      \* self.MayaObjects: [pattern |-> group handle (0: no key), panels |-> #entries]
    scene,            \* Maya scene graph: handles of the pattern groups that exist
    hidden,           \* handles of the pattern groups hidden by cmds.hide
    last_verts,       \* self.last_verts  (<<>> is None)
    current_verts,    \* self.current_verts (<<>> is None)
    garment_ret,      \* what the last MayaGarment call returned or raised
    \* ---- NNSewingPattern ----
    pad_args,         \* [pad_panels_to_len, pad_panels_num, pad_stitches_num] of the call
    tensors,          \* what pattern_as_tensors returned or raised
    decoded,          \* the pattern pattern_from_tensors built, or what it raised
    \* ---- Scene ----
    body,             \* the body mesh: its bounding-box height and the scale calls made
    \* ---- DatasetWrapper ----
    dataset_len,      \* len(self.dataset)
    wrapper,          \* self.split_info, self.training, self.validation, self.test
    torch_rng,        \* state of torch's default random number generator
    clock,            \* int(time.time())
    split_runs,       \* the first and the latest split call, with what they produced
    \* ---- GarmentBaseDataset ----
    subfolders,       \* the subfolders of the dataset root, as listed
    fails_dict,       \* dataset_props['sim']['stats']['fails'], subsections in order
    datapoints_names, \* self.datapoints_names
    clean_ret,        \* what _clean_datapoint_list returned or raised
    \* ---- DatasetWrapper loaders and dataset standardization ----
    loaders,          \* self.batch_size and the four self.loader_* attributes
    loader_ret,       \* what the last get_loader / new_loaders call returned or raised
    standardization,  \* dataset.config['standardize'] and dataset.transforms
    \* ---- MayaGarment simulation properties ----
    sim,              \* self.config, self.obstacles, self.shader_group, the colliders
                      \* of the handle table and the live attributes of the plugin
    \* ---- functions without state ----
    call,             \* arguments and result of the function a behaviour applies
    cache             \* a BaseDataset with its sample caches, read by position

garment_vars == <<loaded_to_maya, MayaObjects, scene, hidden, last_verts,
                  current_verts, garment_ret>>

codec_vars == <<pad_args, tensors, decoded>>

body_vars == <<body>>

split_vars == <<dataset_len, wrapper, torch_rng, clock, split_runs>>

dataset_vars == <<subfolders, fails_dict, datapoints_names, clean_ret>>

wrapper_vars == <<loaders, loader_ret, standardization>>

sim_vars == <<sim>>

pure_vars == <<call, cache>>

vars == <<component, pattern, garment_vars, codec_vars, body_vars, split_vars,
          dataset_vars, wrapper_vars, sim_vars, pure_vars>>

(***************************************************************************)
(* Bounds of the model.                                                    *)
(***************************************************************************)
MaxPanels == 2      \* panels per pattern
MaxGroups == 3      \* pattern groups the modelled scene graph can hold
NumVerts  == 2      \* vertices of the simulated cloth mesh
MaxStitches == 1    \* stitches per pattern

None == "None"

\* None where the value is otherwise a number (pad_panels_to_len=None, test_percent=None)
NoneArg == -1

Abs(a) == IF a < 0 THEN -a ELSE a

Range(s) == {s[i] : i \in 1..Len(s)}

SeqsUpTo(S, lo, hi) == UNION {[1..n -> S] : n \in lo..hi}

(***************************************************************************)
(* numpy.isclose(a, 0, atol = num / den) for an integer a: rtol scales the *)
(* second argument, which is 0, so the test is |a| <= atol.                *)
(***************************************************************************)
IsCloseZero(a, num, den) == den * Abs(a) <= num

(***************************************************************************)
(* Pattern data model: a panel is [vertices, edges]; an edge is            *)
(* [endpoints |-> <<start, end>>, curvature |-> <<cx, cy>> or <<>>].       *)
(***************************************************************************)
NoCurvature == <<>>

StraightEdge(a, b) == [endpoints |-> <<a, b>>, curvature |-> NoCurvature]

\* closed outline through the given vertices, in order, straight edges
Polygon(verts) ==
    [vertices |-> verts,
     edges |-> [i \in 1..Len(verts) |->
                   StraightEdge(i - 1, IF i = Len(verts) THEN 0 ELSE i)]]

Square   == Polygon(<< <<0, 0>>, <<4, 0>>, <<4, 4>>, <<0, 4>> >>)
Triangle == Polygon(<< <<0, 0>>, <<4, 0>>, <<0, 4>> >>)
\* a 4 x 1 strip: two of its four edges are 1 cm long
Strip    == Polygon(<< <<0, 0>>, <<4, 0>>, <<4, 1>>, <<0, 1>> >>)
\* five edges, the last one 1 cm long
Notched  == Polygon(<< <<0, 0>>, <<4, 0>>, <<4, 4>>, <<0, 4>>, <<0, 1>> >>)
\* all vertices on one line: no two consecutive edges span a plane
Flat     == Polygon(<< <<0, 0>>, <<4, 0>>, <<8, 0>> >>)

\* vertices[edge['endpoints'][1]] - vertices[edge['endpoints'][0]]
EdgeDisplacement(panel, i) ==
    LET e == panel.edges[i + 1]
        a == panel.vertices[e.endpoints[1] + 1]
        b == panel.vertices[e.endpoints[2] + 1]
    IN <<b[1] - a[1], b[2] - a[2]>>

(***************************************************************************)
(* MayaGarment                                                             *)
(***************************************************************************)
\* self.MayaObjects = {}: no pattern group, no panels, no 'stitches' key
NoObjects == [pattern |-> 0, panels |-> 0, stitches |-> NoneArg]

NoRet == [op |-> "none", kind |-> "none", b |-> FALSE, n |-> 0,
          threshold |-> 0, percent |-> 0, config |-> NoneArg]

Raised(op, err) == [NoRet EXCEPT !.op = op, !.kind = err]

Returned(op) == [NoRet EXCEPT !.op = op, !.kind = "None"]

\* the garment object and the part of the scene graph it owns, as one value
Garment == [loaded_to_maya |-> loaded_to_maya, MayaObjects |-> MayaObjects,
            scene |-> scene, hidden |-> hidden]

\* cmds.group(em=True, n=self.name): a new node, distinct from every live one
FreshGroup(sc) == CHOOSE h \in 1..MaxGroups : h \notin sc /\ \A g \in 1..(h - 1) : g \in sc

\* np.cross of the first pair of consecutive edges that is not collinear (0 if none)
_match_normal_cross(panel) ==
    LET n == Len(panel.edges)
        Cross(i) == LET a == EdgeDisplacement(panel, i)
                        b == EdgeDisplacement(panel, i + 1)
                    IN a[1] * b[2] - a[2] * b[1]
        hits == {i \in 0..(n - 2) : Cross(i) # 0}
    IN IF hits = {} THEN 0
       ELSE Cross(CHOOSE i \in hits : \A j \in hits : i <= j)

\* _match_normal raises ValueError when all edges are collinear
_match_normal(panel) ==
    IF _match_normal_cross(panel) = 0 THEN "ValueError" ELSE "ok"

\* clean(delete) on a garment value
clean_effect(g, delete) ==
    IF g.loaded_to_maya
    THEN IF delete
         THEN [loaded_to_maya |-> FALSE,
               MayaObjects |-> NoObjects,
               scene |-> g.scene \ {g.MayaObjects.pattern},
               hidden |-> g.hidden \ {g.MayaObjects.pattern}]
         ELSE [g EXCEPT !.hidden = @ \cup {g.MayaObjects.pattern}]
    ELSE g

\* number of panels _load_panel completes before one raises (all of them if none does)
PanelsLoaded(pat) ==
    LET bad == {i \in 1..Len(pat.panels) : _match_normal(pat.panels[i]) # "ok"}
    IN IF bad = {} THEN Len(pat.panels)
       ELSE (CHOOSE i \in bad : \A j \in bad : i <= j) - 1

\* load_panels: the pattern group is created first, then one group per panel;
\* a panel that raises leaves its own group and those before it in the scene
load_panels_effect(g, pat) ==
    LET h == FreshGroup(g.scene)
        k == PanelsLoaded(pat)
        failed == k < Len(pat.panels)
    IN [loaded_to_maya |-> g.loaded_to_maya,
        MayaObjects |-> [g.MayaObjects EXCEPT !.pattern = h,
                                              !.panels = IF failed THEN k + 1 ELSE k],
        scene |-> g.scene \cup {h},
        hidden |-> g.hidden]

\* stitch_panels: MayaObjects['stitches'] = [] first, then one seam per stitch;
\* without a pattern group the lookup of MayaObjects['pattern'] (or of the
\* panels of the first stitch) raises KeyError with the list still empty
stitch_panels_effect(g, pat) ==
    [g EXCEPT !.MayaObjects.stitches =
        IF g.MayaObjects.pattern = 0 THEN 0 ELSE Len(pat.stitches)]

\* load(): clean(True), load_panels, stitch_panels, loaded_to_maya = True
load_effect(g, pat) ==
    LET c == clean_effect(g, TRUE)
        p == load_panels_effect(c, pat)
    IN IF PanelsLoaded(pat) < Len(pat.panels)
       THEN p
       ELSE [stitch_panels_effect(p, pat) EXCEPT !.loaded_to_maya = TRUE]

SetGarment(g) ==
    /\ loaded_to_maya' = g.loaded_to_maya
    /\ MayaObjects' = g.MayaObjects
    /\ scene' = g.scene
    /\ hidden' = g.hidden

(***************************************************************************)
(* Simulation properties of the garment.  sim holds self.config,           *)
(* self.obstacles, self.shader_group, MayaObjects['colliders'] as the live *)
(* friction of each collider (NoColliders while the key is absent) and the *)
(* live attributes of the cloth object.  Frictions are in tenths; a        *)
(* material is 0 for the empty dictionary, else the id of a property set.  *)
(***************************************************************************)
MaxColliders == 2

NoColliders == <<NoneArg>>

NoCloth == [material |-> NoneArg, thickness |-> NoneArg, resolution |-> NoneArg]

\* the cloth object the plugin creates: its own defaults until properties are pushed
NewCloth == [material |-> 1, thickness |-> 1, resolution |-> 1]

\* config={} as an argument
EmptyConfig == [material |-> NoneArg, body_friction |-> NoneArg,
                collision_thickness |-> NoneArg, resolution_scale |-> NoneArg]

\* self.config after __init__; collision_thickness is NoneArg while the key is absent
DefaultConfig == [material |-> 0, body_friction |-> 5,
                  collision_thickness |-> NoneArg, resolution_scale |-> 5]

\* a configuration a caller supplies
GivenConfig == [material |-> 2, body_friction |-> 8,
                collision_thickness |-> NoneArg, resolution_scale |-> 5]

NewSim == [config |-> DefaultConfig, obstacles |-> <<>>, shader_group |-> NoneArg,
           colliders |-> NoColliders, cloth |-> NoCloth]

InitSimVars == sim = NewSim

\* fetchSimProps on a loaded garment: `if friction:` skips a friction of 0
fetchSimProps_value(s) ==
    [s EXCEPT !.config =
        [material |-> s.cloth.material,
         body_friction |-> IF s.colliders # NoColliders /\ s.colliders # <<>>
                              /\ s.colliders[1] # 0
                           THEN s.colliders[1] ELSE s.config.body_friction,
         collision_thickness |-> s.cloth.thickness,
         resolution_scale |-> s.cloth.resolution]]

\* setSimProps(config) on a loaded garment
setSimProps_value(s, config) ==
    LET c == IF config # EmptyConfig THEN config ELSE s.config
    IN  [s EXCEPT !.config = c,
                  !.cloth = [material |-> IF c.material = 0 THEN s.cloth.material
                                          ELSE c.material,
                             thickness |-> IF c.collision_thickness # NoneArg
                                           THEN c.collision_thickness
                                           ELSE s.cloth.thickness,
                             resolution |-> c.resolution_scale],
                  !.colliders = IF s.colliders = NoColliders THEN NoColliders
                                ELSE [k \in 1..Len(s.colliders) |-> c.body_friction]]

\* add_colliders(obstacles) on a loaded garment
add_colliders_value(s, obstacles) ==
    LET obs == IF obstacles # <<>> THEN obstacles ELSE s.obstacles
    IN  [s EXCEPT !.obstacles = obs,
                  !.colliders = (IF s.colliders = NoColliders THEN <<>> ELSE s.colliders)
                                \o [k \in 1..Len(obs) |-> s.config.body_friction]]

\* setShaderGroup(shader_group) on a loaded garment
setShaderGroup_value(s, shader_group) ==
    IF shader_group # NoneArg THEN [s EXCEPT !.shader_group = shader_group] ELSE s

\* clean(delete): MayaObjects = {} takes the colliders and the cloth with it
clean_sim(s, loaded, delete) ==
    IF loaded /\ delete THEN [s EXCEPT !.colliders = NoColliders, !.cloth = NoCloth]
    ELSE s

\* load(obstacles, shader_group, config): fetchSimProps if loaded, clean(True),
\* and, unless a panel raises, the new cloth, setShaderGroup, add_colliders
\* and setSimProps
load_sim(s, loaded, failed, obstacles, shader_group, config) ==
    LET fetched == IF loaded THEN fetchSimProps_value(s) ELSE s
        cleaned == clean_sim(fetched, loaded, TRUE)
    IN  IF failed THEN cleaned
        ELSE setSimProps_value(
                 add_colliders_value(
                     setShaderGroup_value([cleaned EXCEPT !.cloth = NewCloth],
                                          shader_group),
                     obstacles),
                 config)

\* the arguments load is called with; the panel and snapshot runs use the defaults
ObstacleArgs == IF component = "garment" THEN {<<>>} ELSE {<<>>, <<"body">>}

ShaderArgs == IF component = "garment" THEN {NoneArg} ELSE {NoneArg, 1}

ConfigArgs == IF component = "guards" THEN {EmptyConfig, GivenConfig} ELSE {EmptyConfig}

load ==
    /\ component \in {"garment", "guards", "reload"}
    /\ Cardinality(clean_effect(Garment, TRUE).scene) < MaxGroups
    /\ SetGarment(load_effect(Garment, pattern))
    /\ garment_ret' = IF PanelsLoaded(pattern) < Len(pattern.panels)
                      THEN Raised("load", "ValueError")
                      ELSE Returned("load")
    /\ \E obstacles \in ObstacleArgs, shader_group \in ShaderArgs, config \in ConfigArgs :
          sim' = load_sim(sim, loaded_to_maya,
                          PanelsLoaded(pattern) < Len(pattern.panels),
                          obstacles, shader_group, config)
    /\ UNCHANGED <<component, pattern, last_verts, current_verts, codec_vars,
                   body_vars, split_vars, dataset_vars, wrapper_vars, pure_vars>>

\* load_panels(parent_group) called on its own: no clean before it, and
\* loaded_to_maya is left as it was
load_panels ==
    /\ component = "guards"
    /\ Cardinality(scene) < MaxGroups
    /\ SetGarment(load_panels_effect(Garment, pattern))
    /\ garment_ret' = IF PanelsLoaded(pattern) < Len(pattern.panels)
                      THEN Raised("load_panels", "ValueError")
                      ELSE Returned("load_panels")
    /\ UNCHANGED <<component, pattern, last_verts, current_verts, codec_vars,
                   body_vars, split_vars, dataset_vars, wrapper_vars, sim_vars,
                   pure_vars>>

\* stitch_panels() called on its own
stitch_panels ==
    /\ component = "guards"
    /\ SetGarment(stitch_panels_effect(Garment, pattern))
    /\ garment_ret' = IF MayaObjects.pattern = 0
                      THEN Raised("stitch_panels", "KeyError")
                      ELSE Returned("stitch_panels")
    /\ UNCHANGED <<component, pattern, last_verts, current_verts, codec_vars,
                   body_vars, split_vars, dataset_vars, wrapper_vars, sim_vars,
                   pure_vars>>

clean ==
    /\ component \in {"garment", "guards", "reload"}
    /\ \E delete \in BOOLEAN :
          /\ SetGarment(clean_effect(Garment, delete))
          /\ sim' = clean_sim(sim, loaded_to_maya, delete)
    /\ garment_ret' = Returned("clean")
    /\ UNCHANGED <<component, pattern, last_verts, current_verts, codec_vars,
                   body_vars, split_vars, dataset_vars, wrapper_vars, pure_vars>>

\* the patterns a garment object is built from or re-reads from its file
GarmentShapes == {Square, Flat}

GarmentPatterns ==
    {[panels |-> ps, stitches |-> <<>>] : ps \in SeqsUpTo(GarmentShapes, 1, MaxPanels)}

\* reloadJSON(): the specification file is read again
reloadJSON ==
    /\ component = "garment"
    /\ pattern' \in GarmentPatterns
    /\ pattern' # pattern
    /\ garment_ret' = Returned("reloadJSON")
    /\ UNCHANGED <<component, loaded_to_maya, MayaObjects, scene, hidden,
                   last_verts, current_verts, codec_vars, body_vars, split_vars,
                   dataset_vars, wrapper_vars, sim_vars, pure_vars>>

(***************************************************************************)
(* Vertex snapshots and equilibrium detection.                             *)
(***************************************************************************)
NoVerts == <<>>

\* world positions a cloth vertex is sampled at
Positions == {<<0, 0, 0>>, <<1, 1, 0>>}

Snapshots == [1..NumVerts -> Positions]

Thresholds == {1, 2}

Percents == {0, 50, 100}

\* the snapshots and is_static arguments of a run; the guard runs use one of each
VertexSamples == IF component = "garment" THEN Snapshots
                 ELSE {[i \in 1..NumVerts |-> <<0, 0, 0>>]}

StaticArgs == IF component = "garment" THEN Thresholds \X Percents ELSE {<<1, 50>>}

update_verts_info ==
    /\ component \in {"garment", "guards"}
    /\ IF ~loaded_to_maya
       THEN /\ garment_ret' = Raised("update_verts_info", "RuntimeError")
            /\ UNCHANGED <<last_verts, current_verts>>
       ELSE /\ \E vertices \in VertexSamples :
                  /\ last_verts' = current_verts
                  /\ current_verts' = vertices
            /\ garment_ret' = Returned("update_verts_info")
    /\ UNCHANGED <<component, pattern, loaded_to_maya, MayaObjects, scene, hidden,
                   codec_vars, body_vars, split_vars, dataset_vars, wrapper_vars, sim_vars, pure_vars>>

\* np.sum(np.abs(current - last), axis=1)[i]
diff_L1(cur, last, i) ==
    Abs(cur[i][1] - last[i][1]) + Abs(cur[i][2] - last[i][2]) + Abs(cur[i][3] - last[i][3])

\* len(diff_L1[diff_L1 > threshold])
non_static_len(cur, last, threshold) ==
    Cardinality({i \in 1..Len(cur) : diff_L1(cur, last, i) > threshold})

\* the percentage taken as a fraction of 1: the 0.01 factor is lost
static_test_no_percent(count, total, percent) ==
    count = 0 \/ count < total * percent

\* non_static_len == 0 or non_static_len < len(current_verts) * 0.01 * percent
\* (for the vertex counts and whole percents used here the float product
\* compares like the exact one)
static_test(count, total, percent) ==
    count = 0 \/ 100 * count < total * percent

is_static_value(cur, last, threshold, percent) ==
    IF last = NoVerts
    THEN [NoRet EXCEPT !.op = "is_static", !.kind = "bool", !.b = FALSE,
                       !.threshold = threshold, !.percent = percent]
    ELSE LET count == non_static_len(cur, last, threshold)
         IN [op |-> "is_static", kind |-> "tuple",
             b |-> static_test(count, Len(cur), percent), n |-> count,
             threshold |-> threshold, percent |-> percent, config |-> NoneArg]

is_static ==
    /\ component \in {"garment", "guards"}
    /\ \E threshold \in Thresholds, percent \in Percents :
          /\ <<threshold, percent>> \in StaticArgs
          /\ garment_ret' = IF ~loaded_to_maya
                            THEN Raised("is_static", "RuntimeError")
                            ELSE is_static_value(current_verts, last_verts,
                                                 threshold, percent)
    /\ UNCHANGED <<component, pattern, loaded_to_maya, MayaObjects, scene, hidden,
                   last_verts, current_verts, codec_vars, body_vars, split_vars,
                   dataset_vars, wrapper_vars, sim_vars, pure_vars>>

(***************************************************************************)
(* Operations on the simulation properties and on the cloth geometry.      *)
(***************************************************************************)
\* what these operations leave alone
sim_frame == <<component, pattern, loaded_to_maya, MayaObjects, scene, hidden,
               last_verts, current_verts, codec_vars, body_vars, split_vars,
               dataset_vars, wrapper_vars, pure_vars>>

not_loaded_never(loaded) == FALSE

\* `if not self.loaded_to_maya:`
not_loaded(loaded) == ~loaded

setShaderGroup ==
    /\ component = "guards"
    /\ IF not_loaded(loaded_to_maya)
       THEN /\ garment_ret' = Raised("setShaderGroup", "RuntimeError")
            /\ UNCHANGED sim
       ELSE /\ \E shader_group \in ShaderArgs :
                  sim' = setShaderGroup_value(sim, shader_group)
            /\ garment_ret' = Returned("setShaderGroup")
    /\ UNCHANGED sim_frame

add_colliders ==
    /\ component = "guards"
    /\ IF not_loaded(loaded_to_maya)
       THEN /\ garment_ret' = Raised("add_colliders", "RuntimeError")
            /\ UNCHANGED sim
       ELSE /\ \E obstacles \in ObstacleArgs :
                  /\ Len(add_colliders_value(sim, obstacles).colliders) <= MaxColliders
                  /\ sim' = add_colliders_value(sim, obstacles)
            /\ garment_ret' = Returned("add_colliders")
    /\ UNCHANGED sim_frame

fetchSimProps ==
    /\ component = "guards"
    /\ IF not_loaded(loaded_to_maya)
       THEN /\ garment_ret' = Raised("fetchSimProps", "RuntimeError")
            /\ UNCHANGED sim
       ELSE /\ sim' = fetchSimProps_value(sim)
            /\ garment_ret' = [NoRet EXCEPT !.op = "fetchSimProps", !.kind = "dict",
                                            !.config = fetchSimProps_value(sim).config]
    /\ UNCHANGED sim_frame

setSimProps ==
    /\ component = "guards"
    /\ IF not_loaded(loaded_to_maya)
       THEN /\ garment_ret' = Raised("setSimProps", "RuntimeError")
            /\ UNCHANGED sim
       ELSE /\ \E config \in ConfigArgs : sim' = setSimProps_value(sim, config)
            /\ garment_ret' = Returned("setSimProps")
    /\ UNCHANGED sim_frame

\* `if not obstacles: obstacles = self.obstacles`
checked_obstacles(s, obstacles) ==
    IF obstacles # <<>> THEN obstacles ELSE s.obstacles

\* intersect_colliders_3D(obstacles): whether the geometry intersects an
\* obstacle is for the scene to say; without obstacles to go through the
\* loop body never runs.  n is the number of obstacles gone through at most.
intersect_colliders_3D ==
    /\ component = "guards"
    /\ IF not_loaded(loaded_to_maya)
       THEN garment_ret' = Raised("intersect_colliders_3D", "RuntimeError")
       ELSE \E obstacles \in ObstacleArgs, found \in BOOLEAN :
               /\ checked_obstacles(sim, obstacles) = <<>> => ~found
               /\ garment_ret' = [NoRet EXCEPT !.op = "intersect_colliders_3D",
                                               !.kind = "bool", !.b = found,
                                               !.n = Len(checked_obstacles(sim, obstacles))]
    /\ UNCHANGED <<sim_frame, sim>>

self_intersect_3D ==
    /\ component = "guards"
    /\ IF not_loaded(loaded_to_maya)
       THEN garment_ret' = Raised("self_intersect_3D", "RuntimeError")
       ELSE \E found \in BOOLEAN :
               garment_ret' = [NoRet EXCEPT !.op = "self_intersect_3D",
                                            !.kind = "bool", !.b = found]
    /\ UNCHANGED <<sim_frame, sim>>

\* save_mesh and cache_if_enabled print a warning and return when not loaded;
\* when loaded they write a file
save_mesh ==
    /\ component = "guards"
    /\ garment_ret' = Returned("save_mesh")
    /\ UNCHANGED <<sim_frame, sim>>

cache_if_enabled ==
    /\ component = "guards"
    /\ garment_ret' = Returned("cache_if_enabled")
    /\ UNCHANGED <<sim_frame, sim>>

\* the values a user sets by hand in the plugin between two loads
MaterialEdits == {1, 2}

FrictionEdits == {0, 3}

user_edit ==
    /\ component = "reload"
    /\ loaded_to_maya
    /\ \E material \in MaterialEdits, friction \in FrictionEdits :
          sim' = [sim EXCEPT !.cloth.material = material,
                             !.colliders = IF sim.colliders = NoColliders
                                           THEN NoColliders
                                           ELSE [k \in 1..Len(sim.colliders) |-> friction]]
    /\ garment_ret' = NoRet
    /\ UNCHANGED sim_frame

InitGarmentVars ==
    /\ loaded_to_maya = FALSE
    /\ MayaObjects = NoObjects
    /\ scene = {}
    /\ hidden = {}
    /\ last_verts = NoVerts
    /\ current_verts = NoVerts
    /\ garment_ret = NoRet

(***************************************************************************)
(* Scene._load_body: the unit correction of the body mesh.  Heights are in *)
(* tenths of a unit, so the thresholds 3, 10 and 250 are 30, 100 and 2500. *)
(* A scale call is its factor as <<numerator, denominator>>.               *)
(***************************************************************************)
MaxBodyHeight == 3000

NoBody == [loaded |-> FALSE, height |-> 0, scale_calls |-> <<>>]

InitBodyVars == body = NoBody

unit_correction_no_elif(height) ==
    (IF height < 30 THEN << <<100, 1>> >> ELSE <<>>)
    \o (IF height < 100 THEN << <<10, 1>> >> ELSE <<>>)
    \o (IF height > 2500 THEN << <<1, 10>> >> ELSE <<>>)

\* the cmds.scale calls of the if / elif / elif chain
unit_correction(height) ==
    IF height < 30 THEN << <<100, 1>> >>
    ELSE IF height < 100 THEN << <<10, 1>> >>
    ELSE IF height > 2500 THEN << <<1, 10>> >>
    ELSE <<>>

_load_body ==
    /\ component = "scene"
    /\ ~body.loaded
    /\ \E height \in 0..MaxBodyHeight :
          body' = [loaded |-> TRUE, height |-> height,
                   scale_calls |-> unit_correction(height)]
    /\ UNCHANGED <<component, pattern, garment_vars, codec_vars, split_vars,
                   dataset_vars, wrapper_vars, sim_vars, pure_vars>>

(***************************************************************************)
(* Functions without state (_edge_dict, _get_norm_stats, tags_to_stitches) *)
(* are applied once to arguments drawn by the initial state.               *)
(***************************************************************************)
NoCall == [fn |-> "none", done |-> FALSE, args |-> <<>>, ret |-> <<>>]

\* a dataset nobody reads
NoCache == [datapoints_names |-> <<>>]

InitPureVars == call = NoCall /\ cache = NoCache

Applies(fn) == /\ component = "function"
               /\ call.fn = fn
               /\ ~call.done

(***************************************************************************)
(* DatasetWrapper: new_split / load_split.  Datapoints are the indices     *)
(* 0..len-1; a subset is the sequence of its indices, None is NoSubset.    *)
(* torch's generator is a small linear congruential generator: what        *)
(* matters is that manual_seed fixes its state, that every draw advances   *)
(* it and that randperm is a function of the state.                        *)
(***************************************************************************)
MaxLen == 4        \* datapoints in the dataset
MaxClock == 2      \* seconds the clock can show

RngMod == 8

NoSubset == <<NoneArg>>

NoSplitInfo == [random_seed |-> NoneArg, valid_percent |-> NoneArg,
                test_percent |-> NoneArg]

\* state of the wrapper after __init__ (no known_split)
NewWrapper(len) == [split_info |-> NoSplitInfo,
                    training |-> [i \in 1..len |-> i - 1],
                    validation |-> NoSubset, test |-> NoSubset]

InitSplitVars ==
    /\ dataset_len = 0
    /\ wrapper = NewWrapper(0)
    /\ torch_rng = 0
    /\ clock = 0
    /\ split_runs = <<>>

\* one draw of the generator
Lcg(st) == (5 * st + 3) % RngMod

\* torch.manual_seed(seed)
manual_seed(seed) == seed % RngMod

RECURSIVE draws(_, _)
draws(n, st) == IF n = 0 THEN st ELSE draws(n - 1, Lcg(st))

InsertAt(l, k, x) == SubSeq(l, 1, k - 1) \o <<x>> \o SubSeq(l, k, Len(l))

\* torch.randperm(n, generator=default_generator) from generator state st
RECURSIVE randperm(_, _)
randperm(n, st) ==
    IF n = 0 THEN <<>>
    ELSE InsertAt(randperm(n - 1, Lcg(st)), (st % n) + 1, n - 1)

\* (int)(len(self.dataset) * percent / 100)
percent_size(len, percent) == (len * percent) \div 100

\* seq[start:stop] of a Python list: a negative index counts from the end,
\* and both ends are clipped to the list
py_slice(seq, start, stop) ==
    LET n == Len(seq)
        clipped(x) == IF x < 0 THEN (IF x + n < 0 THEN 0 ELSE x + n)
                      ELSE (IF x > n THEN n ELSE x)
    IN SubSeq(seq, clipped(start) + 1, clipped(stop))

\* torch.utils.data.random_split(dataset, lengths) from generator state st:
\* the slices indices[offset - length : offset] of one random permutation,
\* offset the running sum of the lengths.  The lengths load_split passes
\* always sum to len(dataset), so the sum check of random_split passes even
\* when the first of them is negative.
random_split(len, lengths, st) ==
    LET indices == randperm(len, st)
        offset(k) == IF k = 1 THEN lengths[1] ELSE
                     IF k = 2 THEN lengths[1] + lengths[2]
                     ELSE lengths[1] + lengths[2] + lengths[3]
    IN [k \in 1..Len(lengths) |-> py_slice(indices, offset(k) - lengths[k], offset(k))]

\* the generator state load_split partitions from
seeding(seed, st) == manual_seed(seed)

\* load_split once self.split_info is decided: [status, wrapper, rng]
load_split_value(w, len, st) ==
    LET info == w.split_info IN
    IF info.random_seed = NoneArg
    THEN [status |-> "TypeError", wrapper |-> w, rng |-> st]
    ELSE
    LET seeded == seeding(info.random_seed, st)
        valid_size == percent_size(len, info.valid_percent)
        three == info.test_percent # NoneArg /\ info.test_percent # 0
        test_size == IF three THEN percent_size(len, info.test_percent) ELSE 0
        parts == random_split(len,
                    IF three THEN <<len - valid_size - test_size, valid_size, test_size>>
                    ELSE <<len - valid_size, valid_size>>, seeded)
    IN [status |-> "ok",
        wrapper |-> [split_info |-> info, training |-> parts[1],
                     validation |-> parts[2],
                     test |-> IF three THEN parts[3] ELSE NoSubset],
        rng |-> draws(len, seeded)]

\* split_info['random_seed'] = random_seed if random_seed else int(time.time())
new_split_seed(random_seed, now) ==
    IF random_seed # NoneArg /\ random_seed # 0 THEN random_seed ELSE now

RunRecord(op, asked, r) ==
    [op |-> op, asked |-> asked, status |-> r.status,
     split_info |-> r.wrapper.split_info,
     training |-> r.wrapper.training, validation |-> r.wrapper.validation,
     test |-> r.wrapper.test]

\* the runs are logged for the reproducibility properties only
Logged(run) == IF component # "split" THEN split_runs
               ELSE IF split_runs = <<>> THEN <<run>> ELSE <<split_runs[1], run>>

\* ---- loaders: a loader is the data it iterates over and its batch size ----
NoLoader == [data |-> NoSubset, batch_size |-> NoneArg, shuffle |-> FALSE]

DataLoader(data, batch_size, shuffle) ==
    [data |-> data, batch_size |-> batch_size, shuffle |-> shuffle]

\* batch size and loaders after __init__ without batch_size
NoLoaders == [batch_size |-> NoneArg, full |-> NoLoader, train |-> NoLoader,
              validation |-> NoLoader, test |-> NoLoader]

\* `if self.validation`: a subset is falsy when it is None or has no element
Truthy(subset) == subset # NoSubset /\ subset # <<>>

\* DataLoader(self.training, self.batch_size, shuffle=shuffle_train): the
\* sampler of a shuffled loader raises ValueError for a subset without
\* datapoints (num_samples=0)
new_loaders_status(w, shuffle_train) ==
    IF shuffle_train /\ w.training = <<>> THEN "ValueError" ELSE "ok"

\* new_loaders once self.batch_size is set: the training loader is built
\* first, and when that raises the loaders l stay as they were
new_loaders_value(w, len, l, batch_size, shuffle_train) ==
    IF new_loaders_status(w, shuffle_train) # "ok"
    THEN [l EXCEPT !.batch_size = batch_size]
    ELSE [batch_size |-> batch_size,
          train |-> DataLoader(w.training, batch_size, shuffle_train),
          validation |-> IF Truthy(w.validation)
                         THEN DataLoader(w.validation, batch_size, FALSE) ELSE NoLoader,
          test |-> IF Truthy(w.test)
                   THEN DataLoader(w.test, batch_size, FALSE) ELSE NoLoader,
          full |-> DataLoader([i \in 1..len |-> i - 1], batch_size, FALSE)]

\* the outcome of the end of load_split: self.new_loaders() shuffles the
\* training loader
rebuilt_status(w, l, batch_size) ==
    IF batch_size # NoneArg \/ l.batch_size # NoneArg
    THEN new_loaders_status(w, TRUE) ELSE "ok"

\* the end of load_split: the batch size given is stored, and the loaders are
\* built when a batch size is known
rebuilt(w, len, l, batch_size) ==
    LET known == IF batch_size # NoneArg THEN batch_size ELSE l.batch_size
    IN  IF known # NoneArg THEN new_loaders_value(w, len, l, known, TRUE) ELSE l

\* the outcome of the latest wrapper operation
LoaderRet(op, status, value, arg) ==
    [op |-> op, status |-> status, value |-> value, arg |-> arg]

NoArg == [given |-> FALSE, keys |-> {}]

NoLoaderRet == LoaderRet("none", "none", NoLoader, NoArg)

\* the batch sizes a caller passes; the reproducibility runs pass none
BatchSizeArgs == IF component = "split" THEN {NoneArg} ELSE {NoneArg, 2}

\* the seeds a caller passes; the loader and standardization runs split with
\* one seed, the reproducibility and partition runs vary it
SeedArgs == IF component = "wrapper" THEN {2} ELSE {NoneArg, 0, 2}
ValidPercents == {25, 50}
TestPercents == {NoneArg, 25}

\* the percentages a caller passes; the partition runs also pass percentages
\* that ask for more datapoints than the dataset has
ValidPercentArgs == IF component = "partition" THEN {25, 75} ELSE ValidPercents
TestPercentArgs == IF component = "partition" THEN {NoneArg, 50} ELSE TestPercents

new_split ==
    /\ component \in {"split", "wrapper", "partition"}
    /\ \E valid_percent \in ValidPercentArgs, test_percent \in TestPercentArgs,
          random_seed \in SeedArgs :
          LET info == [random_seed |-> new_split_seed(random_seed, clock),
                       valid_percent |-> valid_percent, test_percent |-> test_percent]
              r == load_split_value([wrapper EXCEPT !.split_info = info],
                                    dataset_len, torch_rng)
          IN /\ wrapper' = r.wrapper
             /\ torch_rng' = r.rng
             /\ loaders' = IF r.status = "ok"
                           THEN rebuilt(r.wrapper, dataset_len, loaders, NoneArg)
                           ELSE loaders
             /\ loader_ret' = IF component = "split" THEN loader_ret
                              ELSE LoaderRet("new_split",
                                             IF r.status = "ok"
                                             THEN rebuilt_status(r.wrapper, loaders, NoneArg)
                                             ELSE r.status,
                                             NoLoader, NoArg)
             /\ split_runs' = Logged(RunRecord("new_split",
                                  [random_seed |-> random_seed,
                                   valid_percent |-> valid_percent,
                                   test_percent |-> test_percent], r))
    /\ UNCHANGED <<component, pattern, garment_vars, codec_vars, body_vars,
                   dataset_vars, standardization, sim_vars, pure_vars,
                   dataset_len, clock>>

SplitKeys == {"random_seed", "valid_percent", "test_percent"}

\* what a caller may pass as split_info: nothing, a dictionary with every key,
\* one that lacks test_percent, or the empty dictionary; the partition runs
\* also pass dictionaries without a seed: the split_info of a wrapper that was
\* never split (every key None) and one that names the validation share only
SplitInfoArgs ==
    [given : {TRUE}, keys : {SplitKeys}, random_seed : SeedArgs \ {NoneArg},
     valid_percent : ValidPercentArgs, test_percent : TestPercentArgs]
    \cup (IF component = "partition"
          THEN {[given |-> TRUE, keys |-> SplitKeys, random_seed |-> NoneArg,
                 valid_percent |-> v, test_percent |-> NoneArg] : v \in {NoneArg, 25}}
          ELSE {})
    \cup {[given |-> TRUE, keys |-> {"random_seed", "valid_percent"},
           random_seed |-> 2, valid_percent |-> 25, test_percent |-> NoneArg]}
    \cup {[given |-> g, keys |-> {}, random_seed |-> NoneArg,
           valid_percent |-> NoneArg, test_percent |-> NoneArg] : g \in BOOLEAN}

\* `if split_info:`: None and the empty dictionary are both falsy
load_split ==
    /\ component \in {"split", "wrapper", "partition"}
    /\ \E split_info \in SplitInfoArgs, batch_size \in BatchSizeArgs :
          LET info == [random_seed |-> split_info.random_seed,
                       valid_percent |-> split_info.valid_percent,
                       test_percent |-> split_info.test_percent]
              supplied == split_info.given /\ split_info.keys # {}
              asked == IF supplied THEN info ELSE wrapper.split_info
              r == IF supplied /\ \E key \in SplitKeys : key \notin split_info.keys
                   THEN [status |-> "ValueError", wrapper |-> wrapper, rng |-> torch_rng]
                   ELSE load_split_value([wrapper EXCEPT !.split_info = asked],
                                         dataset_len, torch_rng)
          IN /\ wrapper' = r.wrapper
             /\ torch_rng' = r.rng
             /\ split_runs' = Logged(RunRecord("load_split", asked, r))
             /\ loaders' = IF r.status = "ok"
                           THEN rebuilt(r.wrapper, dataset_len, loaders, batch_size)
                           ELSE loaders
             /\ loader_ret' = IF component = "split" THEN loader_ret
                              ELSE LoaderRet("load_split",
                                             IF r.status = "ok"
                                             THEN rebuilt_status(r.wrapper, loaders, batch_size)
                                             ELSE r.status,
                                             NoLoader,
                                             [given |-> split_info.given,
                                              keys |-> split_info.keys])
    /\ UNCHANGED <<component, pattern, garment_vars, codec_vars, body_vars,
                   dataset_vars, standardization, sim_vars, pure_vars,
                   dataset_len, clock>>

\* what a caller passes for shuffle_train; the loader and standardization
\* runs keep its default
ShuffleArgs == IF component = "wrapper" THEN {TRUE} ELSE BOOLEAN

\* new_loaders(batch_size, shuffle_train): the loaders are returned,
\* RuntimeError is raised without a batch size, or the ValueError of the
\* training loader comes through with the batch size stored
new_loaders ==
    /\ component \in {"wrapper", "partition"}
    /\ \E batch_size \in BatchSizeArgs, shuffle_train \in ShuffleArgs :
          LET known == IF batch_size # NoneArg THEN batch_size ELSE loaders.batch_size
          IN  IF known = NoneArg
              THEN /\ loader_ret' = LoaderRet("new_loaders", "RuntimeError", NoLoader, NoArg)
                   /\ UNCHANGED loaders
              ELSE /\ loaders' = new_loaders_value(wrapper, dataset_len, loaders,
                                                   known, shuffle_train)
                   /\ loader_ret' =
                         IF new_loaders_status(wrapper, shuffle_train) = "ok"
                         THEN LoaderRet("new_loaders", "ok",
                                        DataLoader(wrapper.training, known,
                                                   shuffle_train), NoArg)
                         ELSE LoaderRet("new_loaders", "ValueError", NoLoader, NoArg)
    /\ UNCHANGED <<component, pattern, garment_vars, codec_vars, body_vars,
                   split_vars, dataset_vars, standardization, sim_vars, pure_vars>>

DataSections == {"full", "train", "validation", "test", "other"}

get_loader_value(l, data_section) ==
    IF data_section = "full" THEN LoaderRet("get_loader", "ok", l.full, NoArg)
    ELSE IF data_section = "train" THEN LoaderRet("get_loader", "ok", l.train, NoArg)
    ELSE IF data_section = "test" THEN LoaderRet("get_loader", "ok", l.test, NoArg)
    ELSE IF data_section = "validation"
         THEN LoaderRet("get_loader", "ok", l.validation, NoArg)
    ELSE LoaderRet("get_loader", "ValueError", NoLoader, NoArg)

\* the section asked for is kept in the outcome
get_loader ==
    /\ component \in {"wrapper", "partition"}
    /\ \E data_section \in DataSections :
          loader_ret' = [get_loader_value(loaders, data_section)
                            EXCEPT !.arg = [given |-> TRUE, keys |-> {data_section}]]
    /\ UNCHANGED <<component, pattern, garment_vars, codec_vars, body_vars,
                   split_vars, dataset_vars, loaders, standardization, sim_vars,
                   pure_vars>>

\* `if loader:` a loader is its number of batches, so one over no datapoints
\* is skipped like a missing one
LoaderTruthy(loader) == loader # NoLoader /\ loader.data # <<>>

\* the batches of a loader, the last one possibly short
batches(loader) == (Len(loader.data) + loader.batch_size - 1) \div loader.batch_size

\* the datapoints collated into the first k batches of a loader
datapoints_read(loader, k) ==
    IF k * loader.batch_size < Len(loader.data)
    THEN k * loader.batch_size ELSE Len(loader.data)

\* the generator after n datapoints of the dataset were read: a
\* GarmentPanelDataset draws once for each (_get_features), the others
\* do not draw
read_draws(class, n, st) ==
    IF class = "GarmentPanelDataset" THEN draws(n, st) ELSE st

\* what the sampler of a shuffled loader draws from the default generator
\* depends on the release of torch installed, which the repository does not
\* fix: the seed of a generator of its own, or torch.randperm(n) itself
SamplerDraws == {"seed", "randperm"}

\* the generator after iter(loader) over n datapoints and the first batch
\* asked of it: the iterator draws its base seed, and the sampler of a
\* shuffled loader draws its seed or the n draws of its permutation
iterator_draws(shuffle, n, sampler, st) ==
    draws(IF ~shuffle THEN 1 ELSE IF sampler = "seed" THEN 2 ELSE 1 + n, st)

\* what predict does for a section before it looks the loader up: the
\* directory of the section is made, the model is moved to the device and
\* put in eval mode
BeforeLoader == [given |-> TRUE, keys |-> {"mkdir", "to", "eval"}]

\* predict(model, save_to, [section], single_batch): the loader of the
\* section is read batch by batch, each batch going through the model and
\* save_prediction_batch.  What those two do with a batch is the caller's
\* model and the pattern classes: either may raise on any batch, which ends
\* the call after the batches read so far.  mkdir, model.to and model.eval
\* come before the loader is looked up and may raise as well, which ends the
\* call with nothing read.  A call over several sections is this step once
\* for each section, up to the first that raises.
predict ==
    /\ component = "wrapper"
    /\ \E section \in DataSections, single_batch, raised, raised_before \in BOOLEAN :
          LET got == get_loader_value(loaders, section)
          IN  IF raised_before
              THEN /\ loader_ret' = LoaderRet("predict", "Exception", NoLoader, NoArg)
                   /\ UNCHANGED torch_rng
              ELSE IF got.status # "ok"
              THEN /\ loader_ret' = LoaderRet("predict", got.status, NoLoader, BeforeLoader)
                   /\ UNCHANGED torch_rng
              ELSE IF ~LoaderTruthy(got.value)
              THEN /\ loader_ret' = LoaderRet("predict", "ok", NoLoader, BeforeLoader)
                   /\ UNCHANGED torch_rng
              ELSE \E k \in 1..(IF single_batch THEN 1 ELSE batches(got.value)),
                      sampler \in SamplerDraws :
                      /\ (~single_batch /\ k < batches(got.value)) => raised
                      /\ loader_ret' = LoaderRet("predict",
                                                 IF raised THEN "Exception" ELSE "ok",
                                                 NoLoader, BeforeLoader)
                      /\ torch_rng' = read_draws(standardization.class,
                                                 datapoints_read(got.value, k),
                                                 iterator_draws(got.value.shuffle,
                                                                Len(got.value.data),
                                                                sampler, torch_rng))
    /\ UNCHANGED <<component, pattern, garment_vars, codec_vars, body_vars,
                   dataset_vars, loaders, standardization, sim_vars, pure_vars,
                   dataset_len, wrapper, clock, split_runs>>

\* wrapper.dataset[idx]: one datapoint of the dataset of the wrapper is read
dataset__getitem__ ==
    /\ component = "wrapper"
    /\ \E idx \in 0..(dataset_len - 1) :
          /\ loader_ret' = LoaderRet("__getitem__", "ok", NoLoader, NoArg)
          /\ torch_rng' = read_draws(standardization.class, 1, torch_rng)
    /\ UNCHANGED <<component, pattern, garment_vars, codec_vars, body_vars,
                   dataset_vars, loaders, standardization, sim_vars, pure_vars,
                   dataset_len, wrapper, clock, split_runs>>

(***************************************************************************)
(* Standardization (data.py).  The statistics are kept as the datapoints   *)
(* they were taken over and the mean of the feature as a fraction; the     *)
(* feature of datapoint i is i + 1.  A transform is its kind and the       *)
(* statistics it applies.                                                  *)
(***************************************************************************)
DatasetClasses ==
    {"GarmentPanelDataset", "Garment3DPatternDataset", "Garment3DPatternFullDataset"}

NoStats == [training |-> {NoneArg}, shift |-> <<0, 0>>]

SampleToTensor == [kind |-> "SampleToTensor", stats |-> NoStats]

\* a dataset built without 'standardize' in its start_config
NewDataset(class) == [class |-> class, config |-> NoStats,
                      transforms |-> <<SampleToTensor>>]

\* the constructors: after BaseDataset.__init__ each class reads self[0]
\* again for the sizes it records.  Garment3DPatternDataset asks the ground
\* truth of the sample for .shape, which the tuple SampleToTensor returns for
\* an array does not have, so no object of that class is ever constructed
constructor_status(class) ==
    IF class = "Garment3DPatternDataset" THEN "AttributeError" ELSE "ok"

\* the draws of torch's default generator a constructor makes: a
\* GarmentPanelDataset picks the panel of a sample with torch.randint, once
\* in _estimate_data_shape and once in its own __init__ (no feature caching)
constructor_draws(class) ==
    IF class = "GarmentPanelDataset" THEN 2 ELSE 0

InitWrapperVars ==
    /\ loaders = NoLoaders
    /\ loader_ret = NoLoaderRet
    /\ standardization = NewDataset("Garment3DPatternFullDataset")

\* a 'standardize' section a caller supplies, taken over no datapoint of
\* this dataset
GivenStats == [training |-> {}, shift |-> <<7, 2>>]

\* the generator after standardize(training) without a section in config:
\* the loop over DataLoader(training, batch_size=len(training)) makes an
\* iterator, which draws its base seed, and its one batch reads every
\* datapoint of the training subset, a GarmentPanelDataset drawing once for
\* each (_get_features, no feature caching).  For an empty subset the
\* DataLoader is never built
standardize_draws(std, training, st) ==
    IF std.config = NoStats /\ training # NoSubset /\ training # <<>>
    THEN read_draws(std.class, Len(training),
                    iterator_draws(FALSE, Len(training), "seed", st))
    ELSE st

RECURSIVE feature_sum(_)
feature_sum(training) ==
    IF training = <<>> THEN 0 ELSE training[1] + 1 + feature_sum(Tail(training))

\* statistics of one batch holding the whole training subset
stats_of(training) ==
    [training |-> Range(training), shift |-> <<feature_sum(training), Len(training)>>]

\* the kinds of transform a class removes before it appends its own
standardization_kinds(class) ==
    IF class = "GarmentPanelDataset" THEN <<"FeatureStandartization">>
    ELSE <<"GTtandartization", "FeatureStandartization">>

standardize_recomputed(std, training) ==
    LET stats == IF training # NoSubset THEN stats_of(training) ELSE std.config
        kinds == standardization_kinds(std.class)
    IN  [status |-> "ok",
         std |-> [std EXCEPT !.config = stats,
                             !.transforms =
                                 SelectSeq(std.transforms,
                                           LAMBDA t : t.kind \notin Range(kinds))
                                 \o [k \in 1..Len(kinds) |->
                                        [kind |-> kinds[k], stats |-> stats]]]]

\* standardize(training): configuration has priority over the training subset.
\* without a section: DataLoader(training, batch_size=len(training)) raises
\* ValueError for an empty subset, and in Garment3DPatternDataset
\* _get_distribution_stats(batch['ground_truth']) raises AttributeError, the
\* ground truth of the batch being a list
standardize_value(std, training) ==
    IF std.config = NoStats /\ (training = NoSubset \/ training = <<>>)
    THEN [status |-> "ValueError", std |-> std]
    ELSE IF std.config = NoStats /\ std.class = "Garment3DPatternDataset"
    THEN [status |-> "AttributeError", std |-> std]
    ELSE
    LET stats == IF std.config # NoStats THEN std.config ELSE stats_of(training)
        kinds == standardization_kinds(std.class)
    IN  [status |-> "ok",
         std |-> [std EXCEPT !.config = stats,
                             !.transforms =
                                 SelectSeq(std.transforms,
                                           LAMBDA t : t.kind \notin Range(kinds))
                                 \o [k \in 1..Len(kinds) |->
                                        [kind |-> kinds[k], stats |-> stats]]]]

\* DatasetWrapper.standardize_data: self.dataset.standardize(self.training)
standardize_data ==
    /\ component = "wrapper"
    /\ LET r == standardize_value(standardization, wrapper.training)
       IN  /\ standardization' = r.std
           /\ loader_ret' = LoaderRet("standardize_data", r.status, NoLoader, NoArg)
    /\ torch_rng' = standardize_draws(standardization, wrapper.training, torch_rng)
    /\ UNCHANGED <<component, pattern, garment_vars, codec_vars, body_vars,
                   dataset_len, wrapper, clock, split_runs,
                   dataset_vars, loaders, sim_vars, pure_vars>>

\* dataset.standardize() without a training subset
standardize ==
    /\ component = "wrapper"
    /\ LET r == standardize_value(standardization, NoSubset)
       IN  /\ standardization' = r.std
           /\ loader_ret' = LoaderRet("standardize", r.status, NoLoader, NoArg)
    /\ UNCHANGED <<component, pattern, garment_vars, codec_vars, body_vars,
                   split_vars, dataset_vars, loaders, sim_vars, pure_vars>>

\* dataset.update_config(in_config): self.config.update(in_config) puts the
\* 'standardize' section of in_config, if it has one, in place of the one
\* in config; the transforms are left as they are
update_config ==
    /\ component = "wrapper"
    /\ \E in_config \in {NoStats, GivenStats} :
          standardization' = [standardization EXCEPT
                                 !.config = IF in_config # NoStats THEN in_config ELSE @]
    /\ loader_ret' = LoaderRet("update_config", "ok", NoLoader, NoArg)
    /\ UNCHANGED <<component, pattern, garment_vars, codec_vars, body_vars,
                   split_vars, dataset_vars, loaders, sim_vars, pure_vars>>

\* any other consumer of torch's default generator
use_rng ==
    /\ component = "split"
    /\ torch_rng' = Lcg(torch_rng)
    /\ UNCHANGED <<component, pattern, garment_vars, codec_vars, body_vars,
                   dataset_vars, wrapper_vars, sim_vars, pure_vars,
                   dataset_len, wrapper, clock, split_runs>>

\* a second passes
tick ==
    /\ component = "split"
    /\ clock < MaxClock
    /\ clock' = clock + 1
    /\ UNCHANGED <<component, pattern, garment_vars, codec_vars, body_vars,
                   dataset_vars, wrapper_vars, sim_vars, pure_vars,
                   dataset_len, wrapper, torch_rng, split_runs>>

(***************************************************************************)
(* GarmentBaseDataset._clean_datapoint_list.                               *)
(***************************************************************************)
MaxFolders == 3        \* subfolders of the dataset root
MaxSubsections == 2    \* subsections of sim.stats.fails

FolderNames == {"renders", "d1", "d2", "d3"}

\* directory listings: no name twice
Listings == {l \in SeqsUpTo(FolderNames, 0, MaxFolders) :
                \A i, j \in 1..Len(l) : i # j => l[i] # l[j]}

\* the lists a failure subsection may hold; "gone" is a datapoint no longer on disk
FailLists == {<<>>, <<"d1">>, <<"d1", "d2">>, <<"d2", "gone", "d1">>}

FailsDicts == SeqsUpTo(FailLists, 0, MaxSubsections)

InitDatasetVars ==
    /\ subfolders = <<>>
    /\ fails_dict = <<>>
    /\ datapoints_names = <<>>
    /\ clean_ret = "none"

\* list.remove(x): drops the first item equal to x, ValueError if there is none
list_remove(l, x) ==
    IF x \notin Range(l)
    THEN [status |-> "ValueError", list |-> l]
    ELSE LET k == CHOOSE i \in 1..Len(l) : l[i] = x /\ \A j \in 1..(i - 1) : l[j] # x
         IN [status |-> "ok", list |-> SubSeq(l, 1, k - 1) \o SubSeq(l, k + 1, Len(l))]

remove_fail_unguarded(st, fail) ==
    IF st.status # "ok" THEN st ELSE list_remove(st.list, fail)

\* try: self.datapoints_names.remove(fail) except ValueError: pass
remove_fail(st, fail) ==
    IF st.status # "ok" THEN st
    ELSE [status |-> "ok", list |-> list_remove(st.list, fail).list]

\* for fail in fails_dict[subsection]
RECURSIVE remove_subsection(_, _)
remove_subsection(st, fails) ==
    IF fails = <<>> THEN st
    ELSE remove_subsection(remove_fail(st, Head(fails)), Tail(fails))

\* for subsection in fails_dict
RECURSIVE remove_fails(_, _)
remove_fails(st, subsections) ==
    IF subsections = <<>> THEN st
    ELSE remove_fails(remove_subsection(st, Head(subsections)), Tail(subsections))

_clean_datapoint_list_value(names, fails) ==
    LET first == list_remove(names, "renders")
    IN IF first.status # "ok" THEN first ELSE remove_fails(first, fails)

_clean_datapoint_list ==
    /\ component = "dataset"
    /\ clean_ret = "none"
    /\ LET r == _clean_datapoint_list_value(datapoints_names, fails_dict)
       IN /\ datapoints_names' = r.list
          /\ clean_ret' = IF r.status = "ok" THEN None ELSE r.status
    /\ UNCHANGED <<component, pattern, garment_vars, codec_vars, body_vars,
                   split_vars, subfolders, fails_dict, wrapper_vars, sim_vars,
                   pure_vars>>

(***************************************************************************)
(* NNSewingPattern: pattern <-> tensors.                                   *)
(* A tensor row is <<dx, dy, cx, cy>>; the stitch tensor is <<row of side  *)
(* 0, row of side 1>>, one column per stitch.                              *)
(***************************************************************************)
ZeroRow == <<0, 0, 0, 0>>

NoTensors == [status |-> "none", detail |-> "", panel_seqs |-> <<>>, panel_lens |-> <<>>,
              num_panels |-> 0, stitches |-> << <<>>, <<>> >>, num_stitches |-> 0]

TensorsError(err, what) == [NoTensors EXCEPT !.status = err, !.detail = what]

NoDecoded == [status |-> "none", padded |-> FALSE, with_stitches |-> FALSE,
              panels |-> <<>>, stitches |-> <<>>]

NoPadding == [pad_panels_to_len |-> NoneArg, pad_panels_num |-> NoneArg,
              pad_stitches_num |-> NoneArg]

InitCodecVars ==
    /\ pad_args = NoPadding
    /\ tensors = NoTensors
    /\ decoded = NoDecoded

\* _edge_as_vector: endpoint displacement followed by the curvature (0, 0 if straight)
_edge_as_vector(panel, i) ==
    LET d == EdgeDisplacement(panel, i)
        c == panel.edges[i + 1].curvature
    IN IF c = NoCurvature THEN <<d[1], d[2], 0, 0>> ELSE <<d[1], d[2], c[1], c[2]>>

\* panel_as_numeric(panel_name, pad_to_len): the padded edge sequence
panel_as_numeric(panel, pad_to_len) ==
    LET n == Len(panel.edges)
    IN IF n > pad_to_len
       THEN [status |-> "ValueError", edges |-> <<>>]
       ELSE [status |-> "ok",
             edges |-> [i \in 1..pad_to_len |->
                           IF i <= n THEN _edge_as_vector(panel, i - 1) ELSE ZeroRow]]

MaxOf(s) == CHOOSE m \in Range(s) : \A x \in Range(s) : x <= m

\* max_len = pad_panels_to_len if pad_panels_to_len is not None else max(panel_lens)
max_len_of(pat, pad_panels_to_len) ==
    IF pad_panels_to_len # NoneArg
    THEN pad_panels_to_len
    ELSE MaxOf([i \in 1..Len(pat.panels) |-> Len(pat.panels[i].edges)])

pattern_edge_id_swapped(side, max_len) == side.edge * max_len + side.panel

\* stitches_indicies[id_side][idx] = panel_id * max_len + edge_id
pattern_edge_id(side, max_len) == side.panel * max_len + side.edge

\* the 2 x stitches_num index array, zero where no stitch is written
stitches_indicies(pat, max_len, stitches_num) ==
    [id_side \in 1..2 |->
        [idx \in 1..stitches_num |->
            IF idx <= Len(pat.stitches)
            THEN pattern_edge_id(pat.stitches[idx][id_side], max_len)
            ELSE 0]]

stitches_fit_unchecked(pat, stitches_num) == TRUE

\* not (stitches_num < len(self.pattern['stitches']))
stitches_fit(pat, stitches_num) == ~(stitches_num < Len(pat.stitches))

pattern_as_tensors_value(pat, args) ==
    LET n == Len(pat.panels)
        ptl == args.pad_panels_to_len
        ppn == args.pad_panels_num
        psn == args.pad_stitches_num
    IN IF ptl = NoneArg /\ n = 0
       THEN TensorsError("ValueError", "max() of no panels")
       ELSE
       LET max_len == max_len_of(pat, ptl)
           numeric == [i \in 1..n |-> panel_as_numeric(pat.panels[i], max_len)]
           total == IF ppn # NoneArg /\ ppn > n THEN ppn ELSE n
           stitches_num == IF psn = NoneArg THEN Len(pat.stitches) ELSE psn
       IN IF \E i \in 1..n : numeric[i].status # "ok"
          THEN TensorsError("ValueError", "panel cannot fit into requested length")
          ELSE IF n = 0 /\ total > 0
          THEN TensorsError("IndexError", "panel_seqs[0] of no panels")
          ELSE IF ~stitches_fit(pat, stitches_num)
          THEN TensorsError("ValueError", "requested number of stitches is less")
          ELSE IF total = 0
          THEN TensorsError("ValueError", "np.stack of no panels")
          ELSE [status |-> "ok", detail |-> "",
                panel_seqs |-> [i \in 1..total |->
                                   IF i <= n THEN numeric[i].edges
                                   ELSE [j \in 1..max_len |-> ZeroRow]],
                panel_lens |-> [i \in 1..total |->
                                   IF i <= n THEN Len(pat.panels[i].edges) ELSE 0],
                num_panels |-> n,
                stitches |-> stitches_indicies(pat, max_len, stitches_num),
                num_stitches |-> Len(pat.stitches)]

pattern_as_tensors ==
    /\ component = "codec"
    /\ tensors.status = "none"
    /\ tensors' = pattern_as_tensors_value(pattern, pad_args)
    /\ UNCHANGED <<component, pattern, garment_vars, pad_args, decoded, body_vars,
                   split_vars, dataset_vars, wrapper_vars, sim_vars, pure_vars>>

IsPaddingRow_any(row) == \E k \in 1..Len(row) : IsCloseZero(row[k], 3, 2)

\* np.all(np.isclose(row, 0, atol=1.5)): the row is taken for padding
IsPaddingRow(row) == \A k \in 1..Len(row) : IsCloseZero(row[k], 3, 2)

\* edge_sequence[selection]
unpadded(edge_sequence) ==
    LET Kept(row) == ~IsPaddingRow(row) IN SelectSeq(edge_sequence, Kept)

\* 0, 1, 2 edges are not enough to form a panel
IsMockPanel(edge_sequence) == Len(edge_sequence) < 3

edge_dict_in_unit_any(vstart, vend, curvature, unit) ==
    [endpoints |-> <<vstart, vend>>,
     curvature |-> IF \E k \in 1..2 : IsCloseZero(curvature[k], unit, 100)
                   THEN NoCurvature ELSE curvature]

\* _edge_dict for curvature coordinates given in 1/unit:
\* the curvature is left out if all(np.isclose(curvature, 0, atol=0.01))
edge_dict_in_unit(vstart, vend, curvature, unit) ==
    [endpoints |-> <<vstart, vend>>,
     curvature |-> IF \A k \in 1..2 : IsCloseZero(curvature[k], unit, 100)
                   THEN NoCurvature ELSE curvature]

\* _edge_dict(vstart, vend, curvature)
_edge_dict(vstart, vend, curvature) == edge_dict_in_unit(vstart, vend, curvature, 1)

\* curvature coordinates of the edges built on their own are in thousandths
CurvatureUnit == 1000
MaxCurvature == 12

CurvatureArgs == [vstart : {0}, vend : {1},
                  curvature : (-MaxCurvature..MaxCurvature) \X (-MaxCurvature..MaxCurvature)]

_edge_dict_call ==
    /\ Applies("_edge_dict")
    /\ call' = [call EXCEPT !.done = TRUE,
                  !.ret = edge_dict_in_unit(call.args.vstart, call.args.vend,
                                            call.args.curvature, CurvatureUnit)]
    /\ UNCHANGED <<component, pattern, garment_vars, codec_vars, body_vars, split_vars,
                   dataset_vars, wrapper_vars, sim_vars, cache>>

\* vertices[idx] of panel_from_numeric: the running sum of the first idx displacements
RECURSIVE vertex_at(_, _)
vertex_at(edge_sequence, idx) ==
    IF idx = 0 THEN <<0, 0>>
    ELSE LET v == vertex_at(edge_sequence, idx - 1)
             e == edge_sequence[idx]
         IN <<v[1] + e[1], v[2] + e[2]>>

\* panel_from_numeric on a non-empty edge sequence (after the padding is stripped)
panel_from_edges(edge_sequence) ==
    LET n == Len(edge_sequence)
        fin_vert == vertex_at(edge_sequence, n)
        closes == IsCloseZero(fin_vert[1], 3, 1) /\ IsCloseZero(fin_vert[2], 3, 1)
        curv(i) == <<edge_sequence[i][3], edge_sequence[i][4]>>
    IN [vertices |-> [i \in 1..(IF closes THEN n ELSE n + 1) |->
                         vertex_at(edge_sequence, i - 1)],
        edges |-> [i \in 1..n |->
                      IF i < n THEN _edge_dict(i - 1, i, curv(i))
                      ELSE _edge_dict(n - 1, IF closes THEN 0 ELSE n, curv(n))]]

\* panel_from_numeric(panel_name, edge_sequence, padded)
panel_from_numeric(name, edge_sequence, padded) ==
    LET seq == IF padded THEN unpadded(edge_sequence) ELSE edge_sequence
    IN IF padded /\ IsMockPanel(seq)
       THEN [status |-> "EmptyPanelError", name |-> name, panel |-> Polygon(<<>>)]
       ELSE [status |-> "ok", name |-> name, panel |-> panel_from_edges(seq)]

\* panel_id and edge of a pattern-level edge id
stitch_panel_id(pattern_edge_id_, edges_per_panel) == pattern_edge_id_ \div edges_per_panel

stitch_edge_id(pattern_edge_id_, edges_per_panel) == pattern_edge_id_ % edges_per_panel

\* number of stitch columns decoded before one refers to a non-existing panel
\* (all of them if none does)
ColumnsDecoded(stitches, edges_per_panel, num_in_order) ==
    LET cols == Len(stitches[1])
        bad == {c \in 1..cols : \E sd \in 1..2 :
                   stitch_panel_id(stitches[sd][c], edges_per_panel) > num_in_order - 1}
    IN IF bad = {} THEN cols ELSE (CHOOSE c \in bad : \A d \in bad : c <= d) - 1

\* pattern_from_tensors(pattern_representation, stitches=..., padded=...);
\* panel 'panel_<idx>' is named by idx
pattern_from_tensors_value(pattern_representation, stitches, with_stitches, padded) ==
    LET slots == Len(pattern_representation)
        built == [idx \in 1..slots |->
                     panel_from_numeric(idx - 1, pattern_representation[idx], padded)]
        Kept(r) == r.status = "ok"
        in_order == SelectSeq(built, Kept)
        panels == [i \in 1..Len(in_order) |->
                      [name |-> in_order[i].name,
                       vertices |-> in_order[i].panel.vertices,
                       edges |-> in_order[i].panel.edges]]
        base == [status |-> "ok", padded |-> padded, with_stitches |-> with_stitches,
                 panels |-> panels, stitches |-> <<>>]
    IN IF ~with_stitches
       THEN base
       ELSE IF ~padded
       THEN [base EXCEPT !.status = "NotImplementedError"]
       ELSE LET edges_per_panel == Len(pattern_representation[1])
                done == ColumnsDecoded(stitches, edges_per_panel, Len(in_order))
                objs == [c \in 1..done |->
                            [sd \in 1..2 |->
                                [panel |-> in_order[stitch_panel_id(stitches[sd][c],
                                                       edges_per_panel) + 1].name,
                                 edge |-> stitch_edge_id(stitches[sd][c], edges_per_panel)]]]
            IN [base EXCEPT !.stitches = objs,
                            !.status = IF done < Len(stitches[1])
                                       THEN "InvalidPatternDefError" ELSE "ok"]

pattern_from_tensors ==
    /\ component = "codec"
    /\ tensors.status = "ok"
    /\ decoded.status = "none"
    /\ \E padded \in BOOLEAN, with_stitches \in BOOLEAN :
          decoded' = pattern_from_tensors_value(tensors.panel_seqs, tensors.stitches,
                                                with_stitches, padded)
    /\ UNCHANGED <<component, pattern, garment_vars, pad_args, tensors, body_vars,
                   split_vars, dataset_vars, wrapper_vars, sim_vars, pure_vars>>

NextCodec == pattern_as_tensors \/ pattern_from_tensors

\* ---- inputs of the panel-padding checks: no stitches, every shape ----
PanelShapes == {Triangle, Square, Strip, Notched}

PanelPatterns ==
    {[panels |-> ps, stitches |-> <<>>] : ps \in SeqsUpTo(PanelShapes, 0, MaxPanels)}

LongestShape == 5

PanelPadArgs ==
    [pad_panels_to_len : {NoneArg} \cup 3..(LongestShape + 1),
     pad_panels_num : {NoneArg} \cup 0..(MaxPanels + 1),
     pad_stitches_num : {NoneArg}]

InitPanels ==
    /\ component = "codec"
    /\ pattern \in PanelPatterns
    /\ pad_args \in PanelPadArgs
    /\ tensors = NoTensors
    /\ decoded = NoDecoded
    /\ InitGarmentVars
    /\ InitBodyVars
    /\ InitSplitVars
    /\ InitDatasetVars
    /\ InitWrapperVars /\ InitSimVars /\ InitPureVars

SpecPanels == InitPanels /\ [][NextCodec]_vars

\* ---- inputs of the stitch checks ----
StitchShapes == {Triangle, Square, Strip}

Sides(ps) == {[panel |-> p, edge |-> e] :
                 p \in 0..(Len(ps) - 1), e \in 0..(LongestShape - 1)}

ValidSides(ps) == {sd \in Sides(ps) : sd.edge < Len(ps[sd.panel + 1].edges)}

\* the edge a side is sewn to: same position counted from the end, on the next panel
Partner(ps, sd) ==
    LET q == (sd.panel + 1) % Len(ps)
        m == Len(ps[q + 1].edges)
    IN [panel |-> q, edge |-> (m - 1) - (sd.edge % m)]

StitchPool(ps) == {<<sd, Partner(ps, sd)>> : sd \in ValidSides(ps)}

StitchedPatterns ==
    UNION {{[panels |-> ps, stitches |-> st] : st \in SeqsUpTo(StitchPool(ps), 0, MaxStitches)}
              : ps \in SeqsUpTo(StitchShapes, 0, MaxPanels)}

StitchPadArgs ==
    [pad_panels_to_len : {NoneArg, 3, LongestShape},
     pad_panels_num : {NoneArg, MaxPanels + 1},
     pad_stitches_num : {NoneArg} \cup 0..(MaxStitches + 1)]

InitStitches ==
    /\ component = "codec"
    /\ pattern \in StitchedPatterns
    /\ pad_args \in StitchPadArgs
    /\ tensors = NoTensors
    /\ decoded = NoDecoded
    /\ InitGarmentVars
    /\ InitBodyVars
    /\ InitSplitVars
    /\ InitDatasetVars
    /\ InitWrapperVars /\ InitSimVars /\ InitPureVars

SpecStitches == InitStitches /\ [][NextCodec]_vars

(***************************************************************************)
(* Dataset statistics (data.py).  Feature values are integers in           *)
(* thousandths.  torch.isclose(a, b, rtol) is |a - b| <= atol + rtol * |b| *)
(* with atol = 1e-8 left at its default: in thousandths atol is 1/100000   *)
(* of a unit, so for rtol = 1 / rtol_den the right-hand side is rounded    *)
(* down to (|b| + rtol_den \div 100000) \div rtol_den.                     *)
(***************************************************************************)
torch_isclose(a, b, rtol_den) ==
    Abs(a - b) <= (Abs(b) + rtol_den \div 100000) \div rtol_den

\* the default rtol = 1e-05 of torch.isclose
DefaultRtolDen == 100000

\* the literal 1. in thousandths
NormOne == 1000

\* _unpad: rows whose every element is within 1e-5 of zero are removed
_unpad(rows) == SelectSeq(rows, LAMBDA row : \E k \in 1..Len(row) : row[k] # 0)

norm_scale_unguarded(tmin, tmax) == tmax - tmin

\* one pass of the loop "avoid division by zero" of _get_norm_stats
norm_scale(tmin, tmax) ==
    IF torch_isclose(tmin, tmax, DefaultRtolDen)
    THEN IF ~torch_isclose(tmin, 0, DefaultRtolDen) THEN tmin ELSE NormOne
    ELSE tmax - tmin

\* torch.min and torch.max raise on a batch without rows
_get_norm_stats(input_batch, padded) ==
    LET rows == IF padded THEN _unpad(input_batch) ELSE input_batch
        column(k) == {rows[i][k] : i \in 1..Len(rows)}
        tmin(k) == CHOOSE m \in column(k) : \A x \in column(k) : m <= x
        tmax(k) == CHOOSE m \in column(k) : \A x \in column(k) : x <= m
    IN  IF Len(rows) = 0
        THEN [status |-> "RuntimeError", shift |-> <<>>, scale |-> <<>>]
        ELSE [status |-> "ok",
              shift |-> [k \in 1..Len(rows[1]) |-> tmin(k)],
              scale |-> [k \in 1..Len(rows[1]) |-> norm_scale(tmin(k), tmax(k))]]

MaxBatch == 2

\* batches of rows of two features; 200000 and 200001 are approximately equal
NormArgs ==
    LET values == {-3, 0, 2, 200000, 200001}
    IN  [input_batch : SeqsUpTo(values \X values, 1, MaxBatch), padded : BOOLEAN]

_get_norm_stats_call ==
    /\ Applies("_get_norm_stats")
    /\ call' = [call EXCEPT !.done = TRUE,
                            !.ret = _get_norm_stats(call.args.input_batch,
                                                    call.args.padded)]
    /\ UNCHANGED <<component, pattern, garment_vars, codec_vars, body_vars,
                   split_vars, dataset_vars, wrapper_vars, sim_vars, cache>>

(***************************************************************************)
(* tags_to_stitches: stitch_tags[panel][edge] is a tag of two components   *)
(* in thousandths; panel and edge ids in the result count from 0.  The     *)
(* third positional argument of torch.isclose is rtol: 0.01 for the test   *)
(* against the zero tag, 0.1 for the test of one tag against another.      *)
(***************************************************************************)
tags_to_stitches(stitch_tags) ==
    LET num_edges == Len(stitch_tags[1])
        tag(edge) == stitch_tags[edge[1] + 1][edge[2] + 1]
        all_close(tag1, tag2, rtol_den) ==
            \A k \in 1..Len(tag1) : torch_isclose(tag1[k], tag2[k], rtol_den)
        zero_tag == <<0, 0>>
        edges == [i \in 1..(Len(stitch_tags) * num_edges) |->
                     <<(i - 1) \div num_edges, (i - 1) % num_edges>>]
        non_zero_tags == SelectSeq(edges, LAMBDA e : ~all_close(tag(e), zero_tag, 100))
        n == Len(non_zero_tags)
        pairs == [q \in 1..(n * n) |-> <<((q - 1) \div n) + 1, ((q - 1) % n) + 1>>]
        found == SelectSeq(pairs, LAMBDA p :
                     /\ p[1] < p[2]
                     /\ all_close(tag(non_zero_tags[p[1]]), tag(non_zero_tags[p[2]]), 10))
    IN  [s \in 1..Len(found) |->
            <<non_zero_tags[found[s][1]], non_zero_tags[found[s][2]]>>]

MaxTagPanels == 2

\* tensors of one to MaxTagPanels panels of two edges each
TagArgs ==
    LET tags == {<<0, 0>>, <<5, 0>>, <<95, 500>>, <<105, 500>>, <<500, 500>>, <<580, 500>>}
    IN  [stitch_tags : SeqsUpTo([1..2 -> tags], 1, MaxTagPanels)]

tags_to_stitches_call ==
    /\ Applies("tags_to_stitches")
    /\ call' = [call EXCEPT !.done = TRUE,
                            !.ret = tags_to_stitches(call.args.stitch_tags)]
    /\ UNCHANGED <<component, pattern, garment_vars, codec_vars, body_vars,
                   split_vars, dataset_vars, wrapper_vars, sim_vars, cache>>

(***************************************************************************)
(* The MayaGarment specification: a garment object driven by its callers.  *)
(***************************************************************************)
InitGarment ==
    /\ component = "garment"
    /\ pattern \in GarmentPatterns
    /\ InitGarmentVars
    /\ InitCodecVars
    /\ InitBodyVars
    /\ InitSplitVars
    /\ InitDatasetVars
    /\ InitWrapperVars /\ InitSimVars /\ InitPureVars

NextGarment == load \/ clean \/ reloadJSON \/ update_verts_info \/ is_static

SpecGarment == InitGarment /\ [][NextGarment]_vars

\* every operation of a garment of one square panel
InitGuards ==
    /\ component = "guards"
    /\ pattern = [panels |-> <<Square>>, stitches |-> <<>>]
    /\ InitGarmentVars
    /\ InitCodecVars
    /\ InitBodyVars
    /\ InitSplitVars
    /\ InitDatasetVars
    /\ InitWrapperVars /\ InitSimVars /\ InitPureVars

NextGuards ==
    \/ load \/ load_panels \/ stitch_panels \/ clean \/ setShaderGroup \/ add_colliders \/ fetchSimProps
    \/ setSimProps \/ update_verts_info \/ is_static \/ intersect_colliders_3D
    \/ self_intersect_3D \/ save_mesh \/ cache_if_enabled

SpecGuards == InitGuards /\ [][NextGuards]_vars

\* loads of one garment, with edits made in the plugin between them
InitReload ==
    /\ component = "reload"
    /\ pattern = [panels |-> <<Square>>, stitches |-> <<>>]
    /\ InitGarmentVars
    /\ InitCodecVars
    /\ InitBodyVars
    /\ InitSplitVars
    /\ InitDatasetVars
    /\ InitWrapperVars /\ InitSimVars /\ InitPureVars

NextReload == load \/ clean \/ user_edit

SpecReload == InitReload /\ [][NextReload]_vars

(***************************************************************************)
(* The Scene specification: a scene is built around one body mesh.         *)
(***************************************************************************)
NoPattern == [panels |-> <<>>, stitches |-> <<>>]

InitScene ==
    /\ component = "scene"
    /\ pattern = NoPattern
    /\ InitGarmentVars
    /\ InitCodecVars
    /\ InitBodyVars
    /\ InitSplitVars
    /\ InitDatasetVars
    /\ InitWrapperVars /\ InitSimVars /\ InitPureVars

NextScene == _load_body

SpecScene == InitScene /\ [][NextScene]_vars

(***************************************************************************)
(* The DatasetWrapper specification: splits are made and remade while the  *)
(* clock runs and the generator is used by others.                         *)
(***************************************************************************)
InitSplit ==
    /\ component = "split"
    /\ pattern = NoPattern
    /\ InitGarmentVars
    /\ InitCodecVars
    /\ InitBodyVars
    /\ InitDatasetVars
    /\ InitWrapperVars /\ InitSimVars /\ InitPureVars
    /\ dataset_len \in 1..MaxLen
    /\ wrapper = NewWrapper(dataset_len)
    /\ torch_rng = 0
    /\ clock = 1
    /\ split_runs = <<>>

NextSplit == new_split \/ load_split \/ use_rng \/ tick

SpecSplit == InitSplit /\ [][NextSplit]_vars

(***************************************************************************)
(* The GarmentBaseDataset specification: one cleanup of a listed dataset.  *)
(***************************************************************************)
InitDataset ==
    /\ component = "dataset"
    /\ pattern = NoPattern
    /\ InitGarmentVars
    /\ InitCodecVars
    /\ InitBodyVars
    /\ InitSplitVars
    /\ InitWrapperVars /\ InitSimVars /\ InitPureVars
    /\ subfolders \in Listings
    /\ fails_dict \in FailsDicts
    /\ datapoints_names = subfolders
    /\ clean_ret = "none"

NextDataset == _clean_datapoint_list

SpecDataset == InitDataset /\ [][NextDataset]_vars

(***************************************************************************)
(* DatasetWrapper with its loaders and the standardization of its dataset: *)
(* the state after DatasetWrapper(dataset) on a dataset of any class;      *)
(* known_split and batch_size of __init__ are load_split and new_loaders.  *)
(***************************************************************************)
InitWrapper ==
    /\ component = "wrapper"
    /\ pattern = NoPattern
    /\ InitGarmentVars
    /\ InitCodecVars
    /\ InitBodyVars
    /\ InitDatasetVars
    /\ InitSimVars /\ InitPureVars
    /\ dataset_len \in 1..MaxLen
    /\ wrapper = NewWrapper(dataset_len)
    /\ clock = 0
    /\ split_runs = <<>>
    /\ loaders = NoLoaders
    /\ loader_ret = NoLoaderRet
    /\ \E class \in DatasetClasses :
          /\ constructor_status(class) = "ok"
          /\ standardization = NewDataset(class)
          /\ torch_rng = draws(constructor_draws(class), 0)

NextWrapper ==
    \/ new_split \/ load_split \/ new_loaders \/ get_loader \/ predict
    \/ dataset__getitem__ \/ standardize_data \/ standardize \/ update_config

SpecWrapper == InitWrapper /\ [][NextWrapper]_vars

(***************************************************************************)
(* The function specifications: one application to each argument.          *)
(***************************************************************************)
InitFunction(fn, Args) ==
    /\ component = "function"
    /\ pattern = NoPattern
    /\ InitGarmentVars
    /\ InitCodecVars
    /\ InitBodyVars
    /\ InitSplitVars
    /\ InitDatasetVars
    /\ InitWrapperVars /\ InitSimVars
    /\ cache = NoCache
    /\ \E args \in Args : call = [fn |-> fn, done |-> FALSE, args |-> args, ret |-> <<>>]

SpecEdgeDict == InitFunction("_edge_dict", CurvatureArgs) /\ [][_edge_dict_call]_vars

SpecNormStats ==
    InitFunction("_get_norm_stats", NormArgs) /\ [][_get_norm_stats_call]_vars

SpecTags ==
    InitFunction("tags_to_stitches", TagArgs) /\ [][tags_to_stitches_call]_vars

(***************************************************************************)
(* Properties of MayaGarment (checked under SpecGarment).                  *)
(***************************************************************************)

\* C1: after any sequence of load and clean calls on one garment, load calls
\* that raise on a degenerate panel included, the scene holds at most one
\* pattern group of that garment.
C1_AtMostOnePatternGroup ==
    component = "garment" => Cardinality(scene) <= 1

\* vertices whose L1 displacement between the two snapshots exceeds t
MovedVerts(t) ==
    {i \in 1..Len(current_verts) :
        LET c == current_verts[i]
            l == last_verts[i]
        IN Abs(c[1] - l[1]) + Abs(c[2] - l[2]) + Abs(c[3] - l[3]) > t}

IsStaticOnTwoSnapshots ==
    /\ garment_ret.op = "is_static"
    /\ garment_ret.kind # "RuntimeError"
    /\ last_verts # NoVerts

\* C6: on two vertex snapshots is_static returns the count of the vertices
\* whose L1 displacement exceeds threshold, with true when that count is 0,
\* true when it is positive and below allowed_non_static_percent percent of
\* the vertex count, and false when it is above that percentage.
C6_IsStaticVerdict ==
    IsStaticOnTwoSnapshots =>
        LET count == Cardinality(MovedVerts(garment_ret.threshold))
            total == Len(current_verts)
            pct   == garment_ret.percent
        IN /\ garment_ret.kind = "tuple"
           /\ garment_ret.n = count
           /\ (count = 0 => garment_ret.b)
           /\ (count > 0 /\ 100 * count < total * pct => garment_ret.b)
           /\ (100 * count > total * pct => ~garment_ret.b)

\* C6 witness: a static verdict with a positive non-static count
C6_StaticWithMovingVerts ==
    /\ IsStaticOnTwoSnapshots
    /\ garment_ret.b
    /\ garment_ret.n > 0

\* C7: on a loaded garment every call to is_static returns a
\* (boolean, non-static-count) pair, the first call, made before two
\* snapshots exist, included.
C7_IsStaticReturnsPair ==
    (garment_ret.op = "is_static" /\ garment_ret.kind # "RuntimeError")
        => garment_ret.kind = "tuple"

\* the second half of C7: update_verts_info moves the current snapshot to last_verts
UpdateRotatesSnapshots ==
    [][(garment_ret'.op = "update_verts_info" /\ garment_ret'.kind = "None")
          => last_verts' = current_verts]_vars

(***************************************************************************)
(* Properties of the pattern <-> tensors conversion.                       *)
(***************************************************************************)
Encoded == component = "codec" /\ tensors.status # "none"

\* the stitch array has exactly n columns and the columns after the first real are zero
StitchColumns(n, real) ==
    /\ Len(tensors.stitches[1]) = n
    /\ Len(tensors.stitches[2]) = n
    /\ \A c \in (real + 1)..n : tensors.stitches[1][c] = 0 /\ tensors.stitches[2][c] = 0

StitchCapacityRule ==
    LET psn == pad_args.pad_stitches_num
        real == Len(pattern.stitches)
    IN /\ psn < real => tensors.status # "ok"
       /\ psn >= real => tensors.status = "ok" /\ StitchColumns(psn, real)

\* the pattern has a panel and every panel fits the requested pad_panels_to_len
PanelsFit ==
    /\ Len(pattern.panels) >= 1
    /\ pad_args.pad_panels_to_len # NoneArg =>
          \A i \in 1..Len(pattern.panels) :
             Len(pattern.panels[i].edges) <= pad_args.pad_panels_to_len

\* C2 as stated: pattern_as_tensors raises when pad_stitches_num is below the
\* stitch count and otherwise succeeds with exactly pad_stitches_num columns,
\* the columns beyond the stitch count holding the zero id on both sides.
C2_StitchCapacity ==
    (Encoded /\ pad_args.pad_stitches_num # NoneArg) => StitchCapacityRule

\* C2 amended: the same, for a pattern with at least one panel none of which
\* has more edges than a requested pad_panels_to_len.
C2_StitchCapacityWhenPanelsFit ==
    (Encoded /\ pad_args.pad_stitches_num # NoneArg /\ PanelsFit) => StitchCapacityRule

C2_PaddedStitchColumns ==
    /\ Encoded /\ PanelsFit
    /\ tensors.status = "ok"
    /\ Len(pattern.stitches) = 1
    /\ pad_args.pad_stitches_num = 2

\* C3: for every real stitch side the id written by pattern_as_tensors, split
\* with the edges-per-panel of the same tensor (id div L, id mod L), gives back
\* the panel index and the edge index of the side, whether L was requested or is
\* the longest panel; and where pattern_from_tensors kept every real panel, the
\* stitches it builds for the real columns are the original {panel, edge} pairs.
C3_StitchIndexRoundTrip ==
    (component = "codec" /\ tensors.status = "ok") =>
        LET L == Len(tensors.panel_seqs[1]) IN
        \A c \in 1..Len(pattern.stitches) : \A sd \in 1..2 :
           /\ stitch_panel_id(tensors.stitches[sd][c], L) = pattern.stitches[c][sd].panel
           /\ stitch_edge_id(tensors.stitches[sd][c], L) = pattern.stitches[c][sd].edge
           /\ (/\ decoded.status = "ok" /\ decoded.with_stitches
               /\ Len(decoded.panels) = Len(pattern.panels)) =>
                 decoded.stitches[c][sd] = pattern.stitches[c][sd]

C3_StitchDecodedWithExplicitLength ==
    /\ component = "codec"
    /\ decoded.status = "ok" /\ decoded.with_stitches
    /\ pad_args.pad_panels_to_len = LongestShape
    /\ \E c \in 1..Len(pattern.stitches) :
          /\ pattern.stitches[c][1].panel = 1 /\ pattern.stitches[c][1].edge = 2
          /\ decoded.stitches[c][1] = [panel |-> 1, edge |-> 2]

\* decoded with padded=True from an encoding whose two panel paddings were
\* both requested and both large enough
DecodedFromSufficientPadding ==
    /\ component = "codec"
    /\ decoded.status # "none" /\ decoded.padded
    /\ pad_args.pad_panels_to_len # NoneArg
    /\ pad_args.pad_panels_num # NoneArg
    /\ pad_args.pad_panels_num >= Len(pattern.panels)

PanelsAndEdgesPreserved ==
    /\ decoded.status = "ok"
    /\ Len(decoded.panels) = Len(pattern.panels)
    /\ \A i \in 1..Len(pattern.panels) :
          /\ decoded.panels[i].name = i - 1
          /\ Len(decoded.panels[i].edges) = Len(pattern.panels[i].edges)

\* every edge vector has a component farther than 1.5 from zero
NoShortEdges ==
    \A i \in 1..Len(pattern.panels) : \A e \in 1..Len(pattern.panels[i].edges) :
       \E k \in 1..4 : 2 * Abs(_edge_as_vector(pattern.panels[i], e - 1)[k]) > 3

\* C4 as stated: encoding closed panels of at least 3 edges with sufficient
\* pad_panels_to_len and pad_panels_num and decoding with padded=True gives the
\* original number of panels, each with its original number of edges.
C4_PanelPaddingReversed ==
    DecodedFromSufficientPadding => PanelsAndEdgesPreserved

\* C4 amended: the same, provided every edge vector of the pattern has a
\* component whose absolute value exceeds 1.5.
C4_PanelPaddingReversedForLongEdges ==
    (DecodedFromSufficientPadding /\ NoShortEdges) => PanelsAndEdgesPreserved

C4_PaddedPanelsAndEdgesDropped ==
    /\ DecodedFromSufficientPadding /\ NoShortEdges
    /\ pattern.panels = <<Triangle, Square>>
    /\ Len(tensors.panel_seqs) = 3
    /\ Len(tensors.panel_seqs[1]) = 5
    /\ Len(decoded.panels) = 2

\* C5: decoding (padded=True) the stitch tensor of a pattern encoded with
\* pad_stitches_num above its stitch count yields exactly the true number of
\* stitches, with no stitch made of a padding column.
C5_DecodedStitchCount ==
    (/\ component = "codec"
     /\ decoded.status = "ok" /\ decoded.with_stitches
     /\ pad_args.pad_stitches_num # NoneArg
     /\ pad_args.pad_stitches_num > Len(pattern.stitches))
    => Len(decoded.stitches) = Len(pattern.stitches)

(***************************************************************************)
(* Properties of Scene._load_body (checked under SpecScene).               *)
(***************************************************************************)
\* C8: every bounding-box height takes exactly one branch: under 3 one scale
\* call by 100, otherwise under 10 one by 10, over 250 one by 0.1, anything
\* else no call; 2.5, 8, 150 and 300 take the x100, x10, no-op and x0.1 branch.
C8_OneUnitCorrection ==
    (component = "scene" /\ body.loaded) =>
        LET h == body.height
            calls == body.scale_calls
        IN /\ h < 30 => calls = << <<100, 1>> >>
           /\ (h >= 30 /\ h < 100) => calls = << <<10, 1>> >>
           /\ h > 2500 => calls = << <<1, 10>> >>
           /\ (h >= 100 /\ h <= 2500) => calls = <<>>
           /\ h = 25 => calls = << <<100, 1>> >>
           /\ h = 80 => calls = << <<10, 1>> >>
           /\ h = 1500 => calls = <<>>
           /\ h = 3000 => calls = << <<1, 10>> >>

C8_MetreBodyScaledOnce ==
    /\ component = "scene" /\ body.loaded
    /\ body.height = 25
    /\ body.scale_calls = << <<100, 1>> >>

(***************************************************************************)
(* Properties of DatasetWrapper splits (checked under SpecSplit).          *)
(***************************************************************************)
SameMembership(r1, r2) ==
    /\ Range(r1.training) = Range(r2.training)
    /\ Range(r1.validation) = Range(r2.validation)
    /\ Range(r1.test) = Range(r2.test)

TwoSplits ==
    /\ component = "split"
    /\ Len(split_runs) = 2
    /\ split_runs[1].status = "ok"
    /\ split_runs[2].status = "ok"

\* C9: two runs of new_split or load_split asked for the same random_seed,
\* valid_percent and test_percent on a dataset of the same length give the same
\* training / validation / test membership, whatever used the generator between.
C9_SplitReproducible ==
    (/\ TwoSplits
     /\ split_runs[1].asked = split_runs[2].asked
     /\ split_runs[1].asked.random_seed # NoneArg)
    => SameMembership(split_runs[1], split_runs[2])

\* what does hold: the recorded split_info determines the membership
SplitInfoDeterminesSplit ==
    (TwoSplits /\ split_runs[1].split_info = split_runs[2].split_info)
    => SameMembership(split_runs[1], split_runs[2])

(***************************************************************************)
(* Properties of the dataset cleanup (checked under SpecDataset).          *)
(***************************************************************************)
AllFails == UNION {Range(fails_dict[k]) : k \in 1..Len(fails_dict)}

KeptName(name) == name # "renders" /\ name \notin AllFails

\* C10: the cleaned list is the listed subfolders without 'renders' and without
\* every name of every failure subsection, the rest in the listed order; the
\* call raises only when 'renders' is not listed, never for a failure name that
\* is repeated or not listed.
C10_CleanDatapointList ==
    (component = "dataset" /\ clean_ret # "none") =>
        /\ clean_ret = "ValueError" <=> "renders" \notin Range(subfolders)
        /\ clean_ret = None => datapoints_names = SelectSeq(subfolders, KeptName)

C10_RepeatedAndMissingFailsIgnored ==
    /\ component = "dataset"
    /\ clean_ret = None
    /\ fails_dict = << <<"d1">>, <<"d2", "gone", "d1">> >>
    /\ subfolders = <<"d3", "renders", "d1">>
    /\ datapoints_names = <<"d3">>

(***************************************************************************)
(* Properties of the functions without state.                              *)
(***************************************************************************)
EdgeBuilt == component = "function" /\ call.fn = "_edge_dict" /\ call.done

\* |c| < 0.01, |c| <= 0.01 for a coordinate in thousandths
Within001(c) == Abs(c) < 10
UpTo001(c) == Abs(c) <= 10

\* C11 as stated: the curvature field is left out exactly when both coordinates
\* are within 0.01 of zero, and kept when a coordinate is at or beyond 0.01.
C11_CurvatureKeptAtOrBeyond ==
    EdgeBuilt =>
        (call.ret.curvature = NoCurvature
            <=> (Within001(call.args.curvature[1]) /\ Within001(call.args.curvature[2])))

\* C11 amended: the curvature field is left out exactly when both coordinates
\* are at most 0.01 from zero, and kept, unchanged, when a coordinate is beyond 0.01.
C11_CurvatureKeptBeyond ==
    EdgeBuilt =>
        /\ call.ret.curvature = NoCurvature
              <=> (UpTo001(call.args.curvature[1]) /\ UpTo001(call.args.curvature[2]))
        /\ call.ret.curvature # NoCurvature => call.ret.curvature = call.args.curvature

C11_CurvatureKeptForOneCoordinate ==
    /\ EdgeBuilt
    /\ call.args.curvature = <<0, -11>>
    /\ call.ret.curvature = <<0, -11>>

StatsReturned ==
    component = "function" /\ call.fn = "_get_norm_stats" /\ call.done
        /\ call.ret.status = "ok"

\* the rows the statistics are taken over, and their extremes per feature
StatsRows ==
    IF call.args.padded
    THEN SelectSeq(call.args.input_batch, LAMBDA row : row # <<0, 0>>)
    ELSE call.args.input_batch

StatsColumn(k) == {StatsRows[i][k] : i \in 1..Len(StatsRows)}

StatsMin(k) == CHOOSE m \in StatsColumn(k) : \A x \in StatsColumn(k) : m <= x

StatsMax(k) == CHOOSE m \in StatsColumn(k) : \A x \in StatsColumn(k) : x <= m

\* approximate equality with the default tolerances, a and b in thousandths:
\* |a - b| <= 1e-8 + 1e-5 * |b|; the values stay below 2000 units, whose
\* tolerance is below 20 thousandths
Coincide(a, b) == Abs(a - b) <= 20 /\ 100000 * Abs(a - b) <= 1 + Abs(b)

\* (x - shift) / scale kept exact as a fraction, then scaled back and shifted
RoundTrip(x, shift, scale) ==
    LET normalized == <<x - shift, scale>>
    IN  normalized[1] * (scale \div normalized[2]) + shift

\* C12: every component of the scale returned by _get_norm_stats is nonzero:
\* it is max - min where the two differ, the minimum where they coincide and
\* the minimum is not approximately zero, and exactly 1 where they coincide
\* at approximately zero; standardizing with the returned statistics and
\* inverting gives the value back.
C12_ScaleNeverZero ==
    StatsReturned =>
        \A k \in 1..2 :
            /\ call.ret.shift[k] = StatsMin(k)
            /\ call.ret.scale[k] # 0
            /\ ~Coincide(StatsMin(k), StatsMax(k))
                  => call.ret.scale[k] = StatsMax(k) - StatsMin(k)
            /\ Coincide(StatsMin(k), StatsMax(k)) /\ ~Coincide(StatsMin(k), 0)
                  => call.ret.scale[k] = StatsMin(k)
            /\ Coincide(StatsMin(k), StatsMax(k)) /\ Coincide(StatsMin(k), 0)
                  => call.ret.scale[k] = NormOne
            /\ \A x \in StatsColumn(k) :
                  RoundTrip(x, call.ret.shift[k], call.ret.scale[k]) = x

\* a batch whose first feature is constant at zero and whose second feature
\* takes two approximately equal values
C12_ConstantFeatures ==
    /\ StatsReturned
    /\ call.args.input_batch = << <<0, 200000>>, <<0, 200001>> >>
    /\ call.ret.scale = <<NormOne, 200000>>

StitchesFound == component = "function" /\ call.fn = "tags_to_stitches" /\ call.done

TagEdgeIds == {e \in (0..(MaxTagPanels - 1)) \X (0..1) : e[1] < Len(call.args.stitch_tags)}

TagOf(e) == call.args.stitch_tags[e[1] + 1][e[2] + 1]

InStitch(e) == \E s \in 1..Len(call.ret) : call.ret[s][1] = e \/ call.ret[s][2] = e

\* C13 as stated: every edge whose tag is within 0.01 of the all-zero vector
\* in every component appears in no stitch returned by tags_to_stitches.
C13_NearZeroTagsDiscarded ==
    StitchesFound =>
        \A e \in TagEdgeIds :
            (\A k \in 1..2 : Abs(TagOf(e)[k]) <= 10) => ~InStitch(e)

\* what the code discards: the edges whose tag is the zero vector itself
ExactZeroTagsDiscarded ==
    StitchesFound =>
        \A e \in TagEdgeIds : TagOf(e) = <<0, 0>> => ~InStitch(e)

\* C14 as stated: a pair of candidate edges is returned exactly when the tags
\* differ by at most 0.1 in every component, whichever of the two comes first.
C14_StitchedWithinAbsoluteTolerance ==
    StitchesFound =>
        \A e1, e2 \in TagEdgeIds :
            (/\ e1 # e2
             /\ \E k \in 1..2 : Abs(TagOf(e1)[k]) > 10
             /\ \E k \in 1..2 : Abs(TagOf(e2)[k]) > 10)
            => ((\E s \in 1..Len(call.ret) : call.ret[s] \in {<<e1, e2>>, <<e2, e1>>})
                  <=> \A k \in 1..2 : Abs(TagOf(e1)[k] - TagOf(e2)[k]) <= 100)

\* the decision of the code depends on which edge comes first
StitchDecisionAsymmetric ==
    /\ StitchesFound
    /\ call.args.stitch_tags = << << <<95, 500>>, <<105, 500>> >> >>
    /\ call.ret = << << <<0, 0>>, <<0, 1>> >> >>

(***************************************************************************)
(* Properties of DatasetWrapper's loaders and of the standardization       *)
(* (checked under SpecWrapper, the loaders also under SpecPartition).      *)
(***************************************************************************)
\* the latest call was a new_split or load_split that returned
AfterSplit ==
    /\ component \in {"wrapper", "partition"}
    /\ loader_ret.op \in {"new_split", "load_split"}
    /\ loader_ret.status = "ok"

\* the latest call was a load_split stopped by its key check, before anything
\* was assigned
KeyCheckRaised ==
    /\ loader_ret.op = "load_split"
    /\ loader_ret.status = "ValueError"
    /\ loader_ret.arg.given
    /\ loader_ret.arg.keys \notin {{}, SplitKeys}

\* the latest call was a new_split or load_split that split the dataset: it
\* returned, or it raised ValueError after random_split, from new_loaders
Resplit ==
    /\ component \in {"wrapper", "partition"}
    /\ loader_ret.op \in {"new_split", "load_split"}
    /\ loader_ret.status \in {"ok", "ValueError"}
    /\ ~KeyCheckRaised

LoaderOver(loader, subset, batch_size) ==
    IF subset = NoSubset \/ subset = <<>>
    THEN loader = NoLoader
    ELSE loader.data = subset /\ loader.batch_size = batch_size

\* get_loader returned the loader of the section asked for, or raised for a
\* name that is no section
LoaderOfSection ==
    (component \in {"wrapper", "partition"} /\ loader_ret.op = "get_loader") =>
        \A data_section \in loader_ret.arg.keys :
            /\ data_section \in {"full", "train", "validation", "test"}
                  <=> loader_ret.status = "ok"
            /\ data_section \notin {"full", "train", "validation", "test"}
                  <=> loader_ret.status = "ValueError"
            /\ data_section = "full" => loader_ret.value = loaders.full
            /\ data_section = "train" => loader_ret.value = loaders.train
            /\ data_section = "validation" => loader_ret.value = loaders.validation
            /\ data_section = "test" => loader_ret.value = loaders.test
            /\ loaders.batch_size = NoneArg => loader_ret.value = NoLoader

\* the loaders are over the current subsets if a batch size is known and are
\* all unpopulated otherwise
LoadersBuiltIffBatchSize ==
    IF loaders.batch_size = NoneArg
    THEN loaders = NoLoaders
    ELSE /\ LoaderOver(loaders.train, wrapper.training, loaders.batch_size)
         /\ LoaderOver(loaders.validation, wrapper.validation, loaders.batch_size)
         /\ LoaderOver(loaders.test, wrapper.test, loaders.batch_size)
         /\ loaders.full.data = [i \in 1..dataset_len |-> i - 1]

\* C15: get_loader returns the loader of the section asked for, which is None
\* while the section has not been populated, and raises the unknown-section
\* error for any name outside full, train, validation, test; after a call
\* that split the dataset the loaders are built over the new subsets if a
\* batch size is known and are left unpopulated otherwise.
C15_LoadersFollowBatchSize ==
    /\ LoaderOfSection
    /\ Resplit => LoadersBuiltIffBatchSize

\* what holds instead: get_loader is as stated, and the loaders follow the
\* batch size after every split call that returned
LoadersFollowBatchSizeWhenReturned ==
    /\ LoaderOfSection
    /\ AfterSplit => LoadersBuiltIffBatchSize

\* the split that shows it: training was left empty while a batch size is
\* known, the call raised and the loaders are those of the split before
LoadersLeftAfterResplit ==
    /\ Resplit /\ loader_ret.status = "ValueError"
    /\ wrapper.training = <<>>
    /\ loaders.train # NoLoader /\ loaders.train.data # wrapper.training

\* a split into three parts of a wrapper whose batch size is known
C15_LoadersRebuiltAfterSplit ==
    /\ AfterSplit
    /\ loaders.batch_size = 2
    /\ Len(wrapper.training) = 2
    /\ loaders.train.data = wrapper.training
    /\ loaders.validation.data = wrapper.validation
    /\ loaders.test.data = wrapper.test
    /\ Len(wrapper.test) = 1

\* the latest step was load_split with a dictionary lacking a key of split_info
LoadedIncomplete ==
    /\ component = "wrapper"
    /\ loader_ret'.op = "load_split"
    /\ loader_ret'.arg.given
    /\ loader_ret'.arg.keys # SplitKeys

\* C16 as stated: load_split with a dictionary that lacks one of random_seed,
\* valid_percent, test_percent, the empty dictionary included, fails with the
\* incomplete-specification error and leaves split_info, the subsets and the
\* loaders as they were.
C16_IncompleteSplitInfoRejected ==
    [][LoadedIncomplete =>
          /\ loader_ret'.status = "ValueError"
          /\ wrapper' = wrapper
          /\ loaders' = loaders]_vars

\* what the code does for a dictionary that holds some key but not all
PartialSplitInfoRejected ==
    [][(LoadedIncomplete /\ loader_ret'.arg.keys # {}) =>
          /\ loader_ret'.status = "ValueError"
          /\ wrapper' = wrapper
          /\ loaders' = loaders]_vars

\* the empty dictionary is taken as no dictionary: the split is drawn again
\* from the split_info of the wrapper and the loaders are built
EmptySplitInfoAccepted ==
    /\ component = "wrapper"
    /\ loader_ret.op = "load_split"
    /\ loader_ret.arg = [given |-> TRUE, keys |-> {}]
    /\ loader_ret.status = "ok"
    /\ loaders.batch_size = 2

Standardized == component = "wrapper" /\ standardization.config # NoStats

\* the transforms of one kind in a chain
OfKind(transforms, kind) == {k \in 1..Len(transforms) : transforms[k].kind = kind}

\* one transform of each kind the class uses, none of any other, all with stats
OneOfEachKind(std, stats) ==
    /\ Cardinality(OfKind(std.transforms, "FeatureStandartization")) = 1
    /\ Cardinality(OfKind(std.transforms, "GTtandartization"))
          = IF std.class = "GarmentPanelDataset" THEN 0 ELSE 1
    /\ \A k \in 1..Len(std.transforms) :
          std.transforms[k].kind # "SampleToTensor" => std.transforms[k].stats = stats

\* C17: once the configuration holds a 'standardize' section, every step but
\* a caller's own update_config, standardize calls with or without a training
\* subset and splits included, leaves the section as it is; every standardize
\* call succeeds, and after it the transforms apply exactly the values of the
\* section and the chain holds one standardization transform of each kind.
C17_StatisticsComputedOnce ==
    [][Standardized =>
          /\ loader_ret'.op # "update_config"
                => standardization'.config = standardization.config
          /\ loader_ret'.op \in {"standardize", "standardize_data"}
                => /\ loader_ret'.status = "ok"
                   /\ OneOfEachKind(standardization', standardization.config)]_vars

\* standardize_data called again after the training subset has changed
C17_StandardizedAgainAfterSplit ==
    /\ Standardized
    /\ loader_ret.op = "standardize_data"
    /\ loader_ret.status = "ok"
    /\ standardization.class = "Garment3DPatternFullDataset"
    /\ standardization.config.training = {0, 1, 2, 3}
    /\ Len(wrapper.training) = 1
    /\ Len(standardization.transforms) = 3

\* C18 as stated: in every state reached by construction, new_split,
\* load_split and standardize_data, no datapoint of the current validation or
\* test subset contributed to the statistics in use.
C18_StatisticsFromTrainingOnly ==
    Standardized =>
        standardization.config.training
            \cap (Range(wrapper.validation) \cup Range(wrapper.test)) = {}

\* at the return of standardize_data that computed them, the statistics are
\* those of the training subset
StatisticsFromTrainingWhenComputed ==
    [][(component = "wrapper" /\ standardization.config = NoStats
           /\ standardization'.config # NoStats
           /\ loader_ret'.op = "standardize_data")
          => standardization'.config.training = Range(wrapper.training)]_vars

(***************************************************************************)
(* Properties of the not-loaded guards (SpecGuards) and of reloading       *)
(* (SpecReload).                                                           *)
(***************************************************************************)
GuardedOps == {"setShaderGroup", "add_colliders", "fetchSimProps", "setSimProps",
               "update_verts_info", "is_static", "intersect_colliders_3D",
               "self_intersect_3D"}

GarmentStateKept == UNCHANGED <<sim, last_verts, current_verts, MayaObjects,
                                loaded_to_maya, scene, hidden>>

\* C19: while the garment is not loaded, each of setShaderGroup, add_colliders,
\* fetchSimProps, setSimProps, update_verts_info, is_static,
\* intersect_colliders_3D and self_intersect_3D raises the not-loaded error
\* and changes nothing of the garment; save_mesh and cache_if_enabled return
\* and change nothing.
C19_NotLoadedGuards ==
    [][(component = "guards" /\ ~loaded_to_maya) =>
          /\ garment_ret'.op \in GuardedOps
                => garment_ret'.kind = "RuntimeError" /\ GarmentStateKept
          /\ garment_ret'.op \in {"save_mesh", "cache_if_enabled"}
                => garment_ret'.kind = "None" /\ GarmentStateKept]_vars

\* setSimProps refused after clean(delete=True) of a garment that had
\* colliders and fetched properties
C19_SetSimPropsRefusedAfterClean ==
    /\ component = "guards"
    /\ ~loaded_to_maya
    /\ garment_ret = Raised("setSimProps", "RuntimeError")
    /\ sim.config.material = 1
    /\ sim.obstacles = <<"body">>
    /\ sim.colliders = NoColliders

ReloadedWithoutConfig ==
    /\ component = "reload"
    /\ loaded_to_maya
    /\ garment_ret'.op = "load"
    /\ garment_ret'.kind = "None"

HadColliders == sim.colliders # NoColliders /\ sim.colliders # <<>>

\* C20 as stated: after load without a new config on a loaded garment, the
\* material and the collider friction that were live just before the call
\* are the values in config and the values live after the rebuild.
C20_LiveEditsKeptOnReload ==
    [][ReloadedWithoutConfig =>
          /\ sim'.config.material = sim.cloth.material
          /\ sim'.cloth.material = sim.cloth.material
          /\ HadColliders =>
                /\ sim'.config.body_friction = sim.colliders[1]
                /\ \A k \in 1..Len(sim'.colliders) :
                      sim'.colliders[k] = sim.colliders[1]]_vars

\* what the code keeps: the material, and a friction other than 0
NonzeroEditsKeptOnReload ==
    [][ReloadedWithoutConfig =>
          /\ sim'.config.material = sim.cloth.material
          /\ sim'.cloth.material = sim.cloth.material
          /\ (HadColliders /\ sim.colliders[1] # 0) =>
                /\ sim'.config.body_friction = sim.colliders[1]
                /\ \A k \in 1..Len(sim'.colliders) :
                      sim'.colliders[k] = sim.colliders[1]]_vars

\* a friction of 0 set by hand is replaced by the friction held in config
ZeroFrictionLostOnReload ==
    /\ component = "reload"
    /\ loaded_to_maya
    /\ garment_ret.op = "load"
    /\ sim.colliders = <<5>>
    /\ sim.config.body_friction = 5
    /\ sim.cloth.material = 2

(***************************************************************************)
(* The prediction path of Garment3DPatternFullDataset:                     *)
(* save_prediction_batch -> _pred_to_pattern -> _pattern_from_tenzor ->    *)
(* pattern_from_tensors.  A prediction is [outlines, stitch_tags].         *)
(***************************************************************************)
\* the function a behaviour applies returns ret
Returns(fn, ret) ==
    /\ Applies(fn)
    /\ call' = [call EXCEPT !.done = TRUE, !.ret = ret]
    /\ UNCHANGED <<component, pattern, garment_vars, codec_vars, body_vars,
                   split_vars, dataset_vars, wrapper_vars, sim_vars, cache>>

\* what `except RuntimeError` catches: RuntimeError and its subclasses.
\* EmptyPanelError and InvalidPatternDefError derive from Exception.
RuntimeErrors == {"RuntimeError", "NotImplementedError"}

\* the stitches part of pattern_from_tensors given stitches as the list
\* tags_to_stitches returns, after the panels are rebuilt as in base:
\* len() of a list works, .shape of a list raises AttributeError
stitch_list_decoded(base, stitch_list, padded) ==
    IF Len(stitch_list) = 0
    THEN base
    ELSE [base EXCEPT !.with_stitches = TRUE,
                      !.status = IF padded THEN "AttributeError"
                                 ELSE "NotImplementedError"]

\* pattern_from_tensors(pattern_representation, stitches=stitch_list, padded=padded)
pattern_from_tensors_list(pattern_representation, stitch_list, padded) ==
    stitch_list_decoded(
        pattern_from_tensors_value(pattern_representation, << <<>>, <<>> >>, FALSE, padded),
        stitch_list, padded)

\* tenzor * scale + shift, feature by feature
unstandardized(tenzor, scale, shift) ==
    [s \in 1..Len(tenzor) |->
        [r \in 1..Len(tenzor[s]) |->
            [k \in 1..Len(tenzor[s][r]) |-> tenzor[s][r][k] * scale[k] + shift[k]]]]

\* the dictionary {}: a config without a 'standardize' section
NoStdConfig == [key \in {} |-> NoneArg]

\* the try / except RuntimeError of _pattern_from_tenzor around the decode d:
\* raised is the exception that leaves the function, logged tells the warning
except_RuntimeError(d, stitches, supress_error) ==
    [raised |-> IF d.status = "ok" \/ (d.status \in RuntimeErrors /\ supress_error)
                THEN "none" ELSE d.status,
     logged |-> d.status \in RuntimeErrors /\ supress_error,
     inferred |-> stitches,
     pattern |-> [panels |-> d.panels, stitches |-> d.stitches]]

\* _pattern_from_tenzor(dataname, tenzor, stitches=..., std_config, supress_error)
\* of a dataset whose self.config is config: std_config is only asked whether
\* it has a 'standardize' section, the scale and shift applied are those of
\* self.config, and the lookup is outside the try: without the section in
\* self.config the KeyError leaves the function
_pattern_from_tenzor(config, tenzor, stitches, std_config, supress_error) ==
    IF "standardize" \in DOMAIN std_config /\ "standardize" \notin DOMAIN config
    THEN [raised |-> "KeyError", logged |-> FALSE, inferred |-> stitches,
          pattern |-> NoPattern]
    ELSE except_RuntimeError(
             pattern_from_tensors_list(
                 IF "standardize" \in DOMAIN std_config
                 THEN unstandardized(tenzor, config.standardize.scale,
                                     config.standardize.shift)
                 ELSE tenzor,
                 stitches, TRUE),
             stitches, supress_error)

\* Garment3DPatternFullDataset._pred_to_pattern(prediction, dataname) of a
\* dataset whose self.config is config
_pred_to_pattern(prediction, config) ==
    _pattern_from_tenzor(
        config,
        unstandardized(prediction.outlines, config.standardize.gt_scale,
                       config.standardize.gt_shift),
        tags_to_stitches(prediction.stitch_tags), NoStdConfig, TRUE)

\* the loop of save_prediction_batch over what _pred_to_pattern gives for the
\* items: it ends at the first item whose conversion raises.  items holds the
\* results of the items it reached, prediction_imgs the indices of the items
\* that were serialized
batch_saved(results) ==
    LET failing == {i \in 1..Len(results) : results[i].raised # "none"}
        first == IF failing = {} THEN Len(results) + 1
                 ELSE CHOOSE i \in failing : \A j \in failing : i <= j
    IN [items |-> [i \in 1..(IF failing = {} THEN Len(results) ELSE first) |-> results[i]],
        prediction_imgs |-> [i \in 1..(first - 1) |-> i - 1],
        raised |-> IF failing = {} THEN "none" ELSE results[first].raised]

\* save_prediction_batch(predictions, datanames, save_to)
save_prediction_batch(predictions, config) ==
    batch_saved([i \in 1..Len(predictions) |-> _pred_to_pattern(predictions[i], config)])

MaxPredictions == 2

\* one panel slot of three edges: a triangle or padding; tags that repeat on
\* two edges and tags that are zero or differ on all of them
PredictionArgs ==
    LET Tri == << <<10, 0, 0, 0>>, <<0, 10, 0, 0>>, <<-10, -10, 0, 0>> >>
        Pad == << ZeroRow, ZeroRow, ZeroRow >>
        tags == {<<0, 0>>, <<500, 500>>}
        predictions == [outlines : {<<Tri>>, <<Pad>>}, stitch_tags : {<<t>> : t \in [1..3 -> tags]}]
        configs == {[standardize |->
                        [scale |-> <<1, 1, 1, 1>>, shift |-> <<0, 0, 0, 0>>,
                         gt_scale |-> <<1, 1, 1, 1>>, gt_shift |-> <<0, 0, 0, 0>>]],
                    [standardize |->
                        [scale |-> <<3, 1, 1, 1>>, shift |-> <<0, 2, 0, 0>>,
                         gt_scale |-> <<2, 2, 1, 1>>, gt_shift |-> <<1, 0, 0, 0>>]]}
    IN  [predictions : SeqsUpTo(predictions, 1, MaxPredictions), config : configs]

save_prediction_batch_call ==
    Returns("save_prediction_batch",
            save_prediction_batch(call.args.predictions, call.args.config))

SpecPrediction ==
    InitFunction("save_prediction_batch", PredictionArgs)
        /\ [][save_prediction_batch_call]_vars

\* _pattern_from_tenzor by itself: self.config and std_config each with or
\* without a 'standardize' section, std_config also with one that differs
\* from the section of self.config
FromTenzorArgs ==
    LET Tri == << <<10, 0, 0, 0>>, <<0, 10, 0, 0>>, <<-10, -10, 0, 0>> >>
        own == [standardize |-> [scale |-> <<3, 1, 1, 1>>, shift |-> <<0, 2, 0, 0>>]]
        other == [standardize |-> [scale |-> <<1, 1, 1, 1>>, shift |-> <<0, 0, 0, 0>>]]
    IN  [config : {NoStdConfig, own}, tenzor : {<<Tri>>},
         std_config : {NoStdConfig, own, other}, supress_error : BOOLEAN]

_pattern_from_tenzor_call ==
    Returns("_pattern_from_tenzor",
            _pattern_from_tenzor(call.args.config, call.args.tenzor, <<>>,
                                 call.args.std_config, call.args.supress_error))

SpecFromTenzor ==
    InitFunction("_pattern_from_tenzor", FromTenzorArgs)
        /\ [][_pattern_from_tenzor_call]_vars

\* the scale and shift applied are those of self.config whatever section
\* std_config carries, and a std_config with a section on a dataset without
\* one raises KeyError
ScaledBySelfConfig ==
    (call.fn = "_pattern_from_tenzor" /\ call.done
        /\ "standardize" \in DOMAIN call.args.std_config) =>
        IF "standardize" \in DOMAIN call.args.config
        THEN /\ call.ret.raised = "none"
             /\ call.ret.pattern.panels[1].vertices[2] = <<30, 2>>
        ELSE call.ret.raised = "KeyError"

(***************************************************************************)
(* Properties of the prediction path (checked under SpecPrediction).       *)
(***************************************************************************)
BatchSaved == component = "function" /\ call.fn = "save_prediction_batch" /\ call.done

\* C21: when decoding one item of a batch raises, save_prediction_batch
\* catches and logs the error for that item and still processes every
\* remaining item of the batch: every item is converted and serialized and
\* no exception leaves the call.
C21_EveryItemProcessed ==
    BatchSaved =>
        /\ call.ret.raised = "none"
        /\ Len(call.ret.items) = Len(call.args.predictions)
        /\ Len(call.ret.prediction_imgs) = Len(call.args.predictions)

\* what holds instead: the call stops at the first item whose tags give a
\* stitch, with the AttributeError of that item and the items before it saved
BatchStopsAtFirstStitchedItem ==
    BatchSaved =>
        LET stitched == {i \in 1..Len(call.args.predictions) :
                            tags_to_stitches(call.args.predictions[i].stitch_tags) # <<>>}
        IN IF stitched = {}
           THEN /\ call.ret.raised = "none"
                /\ Len(call.ret.prediction_imgs) = Len(call.args.predictions)
           ELSE /\ call.ret.raised = "AttributeError"
                /\ \A i \in stitched : Len(call.ret.prediction_imgs) < i
                /\ Len(call.ret.prediction_imgs) + 1 \in stitched


(***************************************************************************)
(* panel_from_numeric on edge sequences of any content: outlines that      *)
(* return to the origin, outlines that miss it, padding rows.              *)
(***************************************************************************)
MaxDecodedEdges == 3

DecodedRows == {<<10, 0, 0, 0>>, <<0, 10, 0, 0>>, <<-10, -10, 0, 0>>, <<-10, 0, 0, 0>>,
                <<0, -10, 2, 3>>, <<-8, -10, 0, 0>>, ZeroRow}

PanelFromNumericArgs ==
    [edge_sequence : SeqsUpTo(DecodedRows, 3, MaxDecodedEdges), padded : BOOLEAN]

panel_from_numeric_call ==
    Returns("panel_from_numeric",
            panel_from_numeric("panel_0", call.args.edge_sequence, call.args.padded))

SpecPanelFromNumeric ==
    InitFunction("panel_from_numeric", PanelFromNumericArgs)
        /\ [][panel_from_numeric_call]_vars

(***************************************************************************)
(* Properties of panel_from_numeric (checked under SpecPanelFromNumeric).  *)
(***************************************************************************)
PanelBuilt ==
    /\ component = "function" /\ call.fn = "panel_from_numeric" /\ call.done
    /\ call.ret.status = "ok"

\* edge i goes from vertex i to vertex i + 1 and the last edge returns to vertex 0
ClosedLoop(panel) ==
    LET n == Len(panel.edges)
    IN /\ Len(panel.vertices) = n
       /\ \A i \in 1..n : panel.edges[i].endpoints = <<i - 1, i % n>>

\* the sum of the rows panel_from_numeric builds the panel from
FinalVertex ==
    LET seq == IF call.args.padded THEN unpadded(call.args.edge_sequence)
               ELSE call.args.edge_sequence
    IN vertex_at(seq, Len(seq))

LandsOnOrigin == Abs(FinalVertex[1]) <= 3 /\ Abs(FinalVertex[2]) <= 3

\* C22: every panel produced by panel_from_numeric has edges that form a
\* single closed loop over its vertices in listed order (edge i from vertex i
\* to vertex i + 1, the last edge back to vertex 0), both when the final edge
\* lands within the closure tolerance of the origin and when the repair
\* vertex is inserted.
C22_EdgesFormClosedLoop ==
    PanelBuilt => ClosedLoop(call.ret.panel)

\* what holds instead: the loop is closed exactly when the final edge lands
\* within the tolerance; with the repair vertex the edges are an open chain
\* that ends in the added vertex, and no edge returns to vertex 0
LoopClosedOnlyWithoutRepair ==
    PanelBuilt =>
        LET panel == call.ret.panel
            n == Len(panel.edges)
        IN IF LandsOnOrigin
           THEN ClosedLoop(panel)
           ELSE /\ Len(panel.vertices) = n + 1
                /\ \A i \in 1..n : panel.edges[i].endpoints = <<i - 1, i>>
                /\ panel.vertices[n + 1] = FinalVertex

(***************************************************************************)
(* pattern_from_tensors on tensors of any content: panel slots of four     *)
(* rows that hold a triangle, a square or padding only, and one stitch     *)
(* column of any two pattern-level edge ids, one past the last slot too.   *)
(***************************************************************************)
MaxSlots == 3
EdgesPerSlot == 4

DecodeArgs ==
    LET Padded(rows) == rows \o [i \in 1..(EdgesPerSlot - Len(rows)) |-> ZeroRow]
        Tri == Padded(<< <<10, 0, 0, 0>>, <<0, 10, 0, 0>>, <<-10, -10, 0, 0>> >>)
        Sq == Padded(<< <<10, 0, 0, 0>>, <<0, 10, 0, 0>>, <<-10, 0, 0, 0>>, <<0, -10, 0, 0>> >>)
        Pad == Padded(<<>>)
    IN  UNION {[pattern_representation : [1..n -> {Tri, Sq, Pad}],
                stitches : {<< <<a>>, <<b>> >> : a, b \in 0..(n * EdgesPerSlot)},
                padded : BOOLEAN] : n \in 1..MaxSlots}

pattern_from_tensors_call ==
    Returns("pattern_from_tensors",
            pattern_from_tensors_value(call.args.pattern_representation,
                                       call.args.stitches, TRUE, call.args.padded))

SpecDecode ==
    InitFunction("pattern_from_tensors", DecodeArgs) /\ [][pattern_from_tensors_call]_vars

(***************************************************************************)
(* Properties of the decode of stitches (checked under SpecDecode).        *)
(***************************************************************************)
Decoded == component = "function" /\ call.fn = "pattern_from_tensors" /\ call.done

\* the stitch side names a panel of the decoded pattern
NamesPanel(side) == \E i \in 1..Len(call.ret.panels) : call.ret.panels[i].name = side.panel

\* the stitch side names an edge its panel has
NamesEdge(side) ==
    \E i \in 1..Len(call.ret.panels) :
        /\ call.ret.panels[i].name = side.panel
        /\ side.edge \in 0..(Len(call.ret.panels[i].edges) - 1)

\* C23: whenever pattern_from_tensors returns without raising, every stitch
\* side in the result names an existing panel and an edge index that exists
\* in that panel; a stitch id that decodes to a nonexistent panel or edge is
\* surfaced as the invalid-pattern error and never kept.
C23_StitchSidesExist ==
    (Decoded /\ call.ret.status = "ok") =>
        \A s \in 1..Len(call.ret.stitches) : \A sd \in 1..2 :
            NamesPanel(call.ret.stitches[s][sd]) /\ NamesEdge(call.ret.stitches[s][sd])

\* what holds instead: the panel of every kept side exists, its edge index is
\* only known to be below the padded number of edges per panel
StitchPanelsExist ==
    (Decoded /\ call.ret.status = "ok") =>
        \A s \in 1..Len(call.ret.stitches) : \A sd \in 1..2 :
            /\ NamesPanel(call.ret.stitches[s][sd])
            /\ call.ret.stitches[s][sd].edge \in 0..(EdgesPerSlot - 1)

(***************************************************************************)
(* BaseDataset.__getitem__ and its caches.  gt_cached and feature_cached   *)
(* map a datapoint name to the stored value, Absent for a name that is not *)
(* a key.  What a hook reads depends on the files of the datapoint, which  *)
(* change on disk while the dataset is in use.                             *)
(***************************************************************************)
MaxAccesses == 3
MaxFileVersions == 1

Absent == <<>>

DatapointNames == {"a", "b"}

\* what the hook of a subclass reads for the datapoint from its files
_get_ground_truth(datapoint_name, files) == <<"ground_truth", datapoint_name, files>>

_get_features(datapoint_name, files) == <<"features", datapoint_name, files>>

\* self.gt_cached[datapoint_name] = ground_truth, for every value read
stored_always(cached, caching, datapoint_name, value) ==
    [cached EXCEPT ![datapoint_name] = value]

\* if self.gt_caching: self.gt_cached[datapoint_name] = ground_truth
stored(cached, caching, datapoint_name, value) ==
    IF caching THEN [cached EXCEPT ![datapoint_name] = value] ELSE cached

\* for transform in self.transforms: sample = transform(sample)
RECURSIVE transformed(_, _, _)
transformed(transforms, sample, upto) ==
    IF upto = 0 THEN sample
    ELSE [by |-> transforms[upto], of |-> <<transformed(transforms, sample, upto - 1)>>]

\* self[idx]: accesses, gt_reads and feature_reads count the calls of
\* __getitem__ and of the two hooks (the call made by the constructor
\* included), last records the latest call with the number of times it
\* listed the datapoint's folder
getitem_value(c, idx) ==
    LET datapoint_name == c.datapoints_names[idx + 1]
        gt_hit == c.gt_cached[datapoint_name] # Absent
        gt_listings == IF gt_hit THEN 0 ELSE 1
        ground_truth == IF gt_hit THEN c.gt_cached[datapoint_name]
                        ELSE _get_ground_truth(datapoint_name, c.files)
        f_hit == c.feature_cached[datapoint_name] # Absent
        f_listings == IF f_hit \/ gt_listings = 1 THEN 0 ELSE 1
        features == IF f_hit THEN c.feature_cached[datapoint_name]
                    ELSE _get_features(datapoint_name, c.files)
        raw == [features |-> features, ground_truth |-> ground_truth,
                name |-> datapoint_name]
    IN [c EXCEPT
           !.gt_cached = IF gt_hit THEN @
                         ELSE stored(@, c.gt_caching, datapoint_name, ground_truth),
           !.feature_cached = IF f_hit THEN @
                              ELSE stored(@, c.feature_caching, datapoint_name, features),
           !.accesses[datapoint_name] = @ + 1,
           !.gt_reads[datapoint_name] = IF gt_hit THEN @ ELSE @ + 1,
           !.feature_reads[datapoint_name] = IF f_hit THEN @ ELSE @ + 1,
           !.last = [name |-> datapoint_name, listings |-> gt_listings + f_listings,
                     raw |-> raw,
                     sample |-> <<transformed(c.transforms, raw, Len(c.transforms))>>]]

\* BaseDataset(root_dir, gt_caching=..., feature_caching=..., transforms=...):
\* __init__ assigns the fields and ends with _estimate_data_shape(), which
\* reads self[0], so the first datapoint has been read once (and is cached,
\* with caching on) when the constructor returns
BaseDataset(gt_caching, feature_caching, transforms) ==
    getitem_value(
        [datapoints_names |-> <<"a", "b">>,
         gt_caching |-> gt_caching, feature_caching |-> feature_caching,
         gt_cached |-> [n \in DatapointNames |-> Absent],
         feature_cached |-> [n \in DatapointNames |-> Absent],
         transforms |-> <<"SampleToTensor">> \o transforms,
         files |-> 0,
         accesses |-> [n \in DatapointNames |-> 0],
         gt_reads |-> [n \in DatapointNames |-> 0],
         feature_reads |-> [n \in DatapointNames |-> 0],
         last |-> [name |-> "", listings |-> 0, raw |-> <<>>, sample |-> <<>>]],
        0)

__getitem__ ==
    /\ component = "cache"
    /\ \A n \in DatapointNames : cache.accesses[n] < MaxAccesses
    /\ \E idx \in 0..(Len(cache.datapoints_names) - 1) : cache' = getitem_value(cache, idx)
    /\ UNCHANGED <<component, pattern, garment_vars, codec_vars, body_vars, split_vars,
                   dataset_vars, wrapper_vars, sim_vars, call>>

\* the files of the datapoints are rewritten on disk
files_change ==
    /\ component = "cache"
    /\ cache.files < MaxFileVersions
    /\ cache' = [cache EXCEPT !.files = @ + 1]
    /\ UNCHANGED <<component, pattern, garment_vars, codec_vars, body_vars, split_vars,
                   dataset_vars, wrapper_vars, sim_vars, call>>

InitCache ==
    /\ component = "cache"
    /\ pattern = NoPattern
    /\ InitGarmentVars
    /\ InitCodecVars
    /\ InitBodyVars
    /\ InitSplitVars
    /\ InitDatasetVars
    /\ InitWrapperVars /\ InitSimVars
    /\ call = NoCall
    /\ \E gt_caching, feature_caching \in BOOLEAN :
       \E transforms \in {<<>>, <<"GTtandartization", "FeatureStandartization">>} :
          cache = BaseDataset(gt_caching, feature_caching, transforms)

NextCache == __getitem__ \/ files_change

SpecCache == InitCache /\ [][NextCache]_vars

(***************************************************************************)
(* Properties of the sample caches (checked under SpecCache).              *)
(***************************************************************************)
\* the caches and the counts of hook calls agree with the caching flags
CachesFollowFlags ==
    \A n \in DatapointNames :
        /\ IF cache.gt_caching
           THEN /\ cache.gt_reads[n] <= 1
                /\ cache.gt_cached[n] # Absent <=> cache.accesses[n] >= 1
           ELSE /\ cache.gt_cached[n] = Absent
                /\ cache.gt_reads[n] = cache.accesses[n]
        /\ IF cache.feature_caching
           THEN /\ cache.feature_reads[n] <= 1
                /\ cache.feature_cached[n] # Absent <=> cache.accesses[n] >= 1
           ELSE /\ cache.feature_cached[n] = Absent
                /\ cache.feature_reads[n] = cache.accesses[n]

\* the sample of the latest access is its raw sample with SampleToTensor
\* applied first and the transforms given at construction after it, in order
TransformsInOrder ==
    cache.last.name # "" =>
        LET first == cache.last.sample[1]
        IN IF Len(cache.transforms) = 1
           THEN first = [by |-> "SampleToTensor", of |-> <<cache.last.raw>>]
           ELSE first = [by |-> "FeatureStandartization",
                         of |-> <<[by |-> "GTtandartization",
                                   of |-> <<[by |-> "SampleToTensor",
                                             of |-> <<cache.last.raw>>]>>]>>]

\* a stored entry stays as it is, and an access uses the stored value for a
\* key of the cache and what the hook reads from the files otherwise
EntriesKept ==
    component = "cache" =>
        /\ \A n \in DatapointNames :
              /\ cache.gt_cached[n] # Absent => cache'.gt_cached[n] = cache.gt_cached[n]
              /\ cache.feature_cached[n] # Absent
                    => cache'.feature_cached[n] = cache.feature_cached[n]
        /\ cache'.accesses # cache.accesses =>
              LET name == cache'.last.name
              IN /\ cache'.last.raw.ground_truth =
                        IF cache.gt_cached[name] # Absent THEN cache.gt_cached[name]
                        ELSE _get_ground_truth(name, cache.files)
                 /\ cache'.last.raw.features =
                        IF cache.feature_cached[name] # Absent THEN cache.feature_cached[name]
                        ELSE _get_features(name, cache.files)

\* C24: the sample caches are append-only: with caching enabled the hook
\* (_get_ground_truth, resp. _get_features) runs at most once per datapoint
\* name over any sequence of accesses and a stored entry is never removed or
\* overwritten; with caching disabled the cache stays empty and the hook runs
\* on every access; in both cases the file list of the datapoint is resolved
\* at most once per access and the transforms are applied in order to cached
\* and freshly read values alike.
C24_CachesAppendOnly ==
    /\ [](component = "cache"
             => CachesFollowFlags /\ cache.last.listings <= 1 /\ TransformsInOrder)
    /\ [][EntriesKept]_vars

\* datapoint "a" was read twice with ground-truth caching only, its files
\* changed in between: the hook ran once and the entry is the first reading
C24_CachedEntrySurvivesFileChange ==
    /\ component = "cache"
    /\ cache.gt_caching /\ ~cache.feature_caching
    /\ cache.accesses["a"] = 2 /\ cache.gt_reads["a"] = 1 /\ cache.feature_reads["a"] = 2
    /\ cache.files = 1
    /\ cache.gt_cached["a"] = _get_ground_truth("a", 0)
    /\ cache.last.name = "a" /\ cache.last.listings = 1
    /\ cache.last.raw.features = _get_features("a", 1)
    /\ Len(cache.transforms) = 3

(***************************************************************************)
(* The transforms SampleToTensor and GTtandartization.  A value is         *)
(* [kind, data]: an ndarray, a Tensor (the empty tensor has no data), a    *)
(* dict of such values by key, a Python tuple of values, or None.  A       *)
(* quotient is kept as <<numerator, denominator>>.                         *)
(***************************************************************************)
NoneValue == [kind |-> "None", data |-> <<>>]

ndarray(data) == [kind |-> "ndarray", data |-> data]

Tensor(data) == [kind |-> "Tensor", data |-> data]

dict(items) == [kind |-> "dict", data |-> items]

tuple(items) == [kind |-> "tuple", data |-> items]

\* _dict_to_tensors(dict_obj)
_dict_to_tensors(dict_obj) == dict([key \in DOMAIN dict_obj.data |-> Tensor(dict_obj.data[key].data)])

\* torch.from_numpy(value).float() if value is not None else torch.Tensor()
from_numpy_or_empty(value) == IF value # NoneValue THEN Tensor(value.data) ELSE Tensor(<<>>)

\* SampleToTensor.__call__(sample): the assignment of new_gt for a ground
\* truth that is no dict ends in a comma, which makes it a tuple of one
SampleToTensor__call__(sample) ==
    [features |-> from_numpy_or_empty(sample.features),
     ground_truth |-> IF sample.ground_truth.kind = "dict"
                      THEN _dict_to_tensors(sample.ground_truth)
                      ELSE tuple(<<from_numpy_or_empty(sample.ground_truth)>>),
     name |-> sample.name]

\* value - shift of tensors, element by element
shifted(value, shift) ==
    Tensor([k \in 1..Len(value.data) |-> value.data[k] - shift.data[k]])

\* value / scale of tensors, element by element
scaled(value, scale) ==
    Tensor([k \in 1..Len(value.data) |-> <<value.data[k], scale.data[k]>>])

\* (value - shift) / scale of tensors, element by element
standardized(value, shift, scale) == scaled(shifted(value, shift), scale)

\* one pass of the loop over gt.items(): the shift is subtracted if shift has
\* the key, and the result divided if scale has the key, each on its own
standardized_key(value, key, shift, scale) ==
    IF key \in DOMAIN shift.data
    THEN IF key \in DOMAIN scale.data
         THEN standardized(value, shift.data[key], scale.data[key])
         ELSE shifted(value, shift.data[key])
    ELSE IF key \in DOMAIN scale.data
         THEN scaled(value, scale.data[key])
         ELSE value

\* GTtandartization(shift, scale).__call__(sample): a dict is standardized
\* key by key, anything else goes through (gt - self.shift) / self.scale,
\* which a tuple does not support
GTtandartization__call__(shift, scale, sample) ==
    LET gt == sample.ground_truth
    IN IF gt.kind = "dict"
       THEN [status |-> "ok",
             ground_truth |-> dict([key \in DOMAIN gt.data |->
                 standardized_key(gt.data[key], key, shift, scale)])]
       ELSE IF gt.kind = "Tensor"
       THEN [status |-> "ok", ground_truth |-> standardized(gt, shift, scale)]
       ELSE [status |-> "TypeError", ground_truth |-> gt]

\* samples of two numbers per array, with the statistics of their dataset;
\* the statistics of a dict name any of its keys, shift and scale each their own
TransformArgs ==
    LET arrays == {ndarray(<<a, b>>) : a, b \in {0, 1, 5}}
        dicts == {dict([outlines |-> o, rotations |-> ndarray(<<1, 0>>)]) : o \in arrays}
        array_stats == [shift : {Tensor(<<0, 1>>)}, scale : {Tensor(<<1, 4>>), Tensor(<<2, 2>>)}]
        keys == {"outlines", "rotations"}
        shift_of == [outlines |-> Tensor(<<0, 1>>), rotations |-> Tensor(<<1, 1>>)]
        scale_of(st) == [outlines |-> st.scale, rotations |-> Tensor(<<2, 2>>)]
        dict_stats == {[shift |-> dict([key \in shifts |-> shift_of[key]]),
                        scale |-> dict([key \in scales |-> scale_of(st)[key]])] :
                          st \in array_stats, shifts \in SUBSET keys, scales \in SUBSET keys}
        features == {NoneValue, ndarray(<<3, 4>>)}
    IN  [sample : [features : features, ground_truth : arrays \cup {NoneValue}, name : {"a"}],
         stats : array_stats]
        \cup [sample : [features : features, ground_truth : dicts, name : {"a"}],
              stats : dict_stats]

\* BaseDataset.__getitem__ runs SampleToTensor and GTtandartization after it
SampleToTensor_call ==
    Returns("SampleToTensor",
            LET sample == SampleToTensor__call__(call.args.sample)
            IN [sample |-> sample,
                standardized |-> GTtandartization__call__(
                    call.args.stats.shift, call.args.stats.scale, sample)])

SpecTransforms == InitFunction("SampleToTensor", TransformArgs) /\ [][SampleToTensor_call]_vars

(***************************************************************************)
(* Properties of the transforms (checked under SpecTransforms).            *)
(***************************************************************************)
Transformed == component = "function" /\ call.fn = "SampleToTensor" /\ call.done

\* C25: SampleToTensor returns a sample whose ground_truth is a tensor when
\* the raw ground truth is a numeric array, a dictionary of tensors when it
\* is a dictionary and the empty tensor when it is absent (likewise a tensor
\* or the empty tensor for features), so that the GTtandartization that
\* follows computes (ground_truth - shift) / scale on it.
C25_GroundTruthIsTensor ==
    Transformed =>
        LET raw == call.args.sample
            out == call.ret.sample
        IN /\ out.features = IF raw.features = NoneValue THEN Tensor(<<>>)
                             ELSE Tensor(raw.features.data)
           /\ raw.ground_truth.kind = "ndarray"
                 => out.ground_truth = Tensor(raw.ground_truth.data)
           /\ raw.ground_truth = NoneValue => out.ground_truth = Tensor(<<>>)
           /\ raw.ground_truth.kind = "dict"
                 => /\ out.ground_truth.kind = "dict"
                    /\ \A key \in DOMAIN raw.ground_truth.data :
                          out.ground_truth.data[key] = Tensor(raw.ground_truth.data[key].data)
           /\ raw.ground_truth # NoneValue => call.ret.standardized.status = "ok"

\* what holds instead: features and dictionaries are converted as stated; a
\* ground truth that is an array or absent comes out as a tuple holding the
\* tensor, and GTtandartization fails on it with a TypeError
ArrayGroundTruthIsTupleOfTensor ==
    Transformed =>
        LET raw == call.args.sample
            out == call.ret.sample
        IN /\ out.features = from_numpy_or_empty(raw.features)
           /\ IF raw.ground_truth.kind = "dict"
              THEN /\ out.ground_truth.kind = "dict"
                   /\ \A key \in DOMAIN raw.ground_truth.data :
                         out.ground_truth.data[key] = Tensor(raw.ground_truth.data[key].data)
                   /\ call.ret.standardized.status = "ok"
                   /\ \A key \in DOMAIN raw.ground_truth.data :
                         LET shift == call.args.stats.shift.data
                             scale == call.args.stats.scale.data
                             value == out.ground_truth.data[key]
                             new_gt == call.ret.standardized.ground_truth.data[key]
                         IN \A k \in 1..Len(value.data) :
                               new_gt.data[k] =
                                  IF key \in DOMAIN scale
                                  THEN <<value.data[k] - (IF key \in DOMAIN shift
                                                          THEN shift[key].data[k] ELSE 0),
                                         scale[key].data[k]>>
                                  ELSE IF key \in DOMAIN shift
                                  THEN value.data[k] - shift[key].data[k]
                                  ELSE value.data[k]
              ELSE /\ out.ground_truth.kind = "tuple"
                   /\ out.ground_truth.data = <<from_numpy_or_empty(raw.ground_truth)>>
                   /\ call.ret.standardized.status = "TypeError"

\* the stitch of a pattern that joins the two (panel_id, edge_id) locations
Joins(stitch, pair) ==
    /\ stitch[1] = [panel |-> pair[1][1], edge |-> pair[1][2]]
    /\ stitch[2] = [panel |-> pair[2][1], edge |-> pair[2][2]]

\* C26: on the prediction path of Garment3DPatternFullDataset the stitches
\* inferred by tags_to_stitches are handed to the decode and, for every
\* inferred pair of (panel, edge) locations, the reconstructed pattern has
\* one stitch joining exactly those two edges; an empty inference yields a
\* pattern with no stitches.  (Checked under SpecPrediction.)
C26_InferredStitchesDecoded ==
    BatchSaved =>
        \A i \in 1..Len(call.ret.items) :
            LET item == call.ret.items[i]
                inferred == tags_to_stitches(call.args.predictions[i].stitch_tags)
            IN /\ item.raised = "none"
               /\ item.inferred = inferred
               /\ Len(item.pattern.stitches) = Len(inferred)
               /\ \A s \in 1..Len(inferred) :
                     Cardinality({t \in 1..Len(item.pattern.stitches) :
                                     Joins(item.pattern.stitches[t], inferred[s])}) = 1

\* what holds instead: the inferred stitches reach the decode, which returns
\* a pattern (without stitches) only for an empty inference and raises
\* AttributeError for any other
OnlyEmptyInferenceDecoded ==
    BatchSaved =>
        \A i \in 1..Len(call.ret.items) :
            LET item == call.ret.items[i]
                inferred == tags_to_stitches(call.args.predictions[i].stitch_tags)
            IN /\ item.inferred = inferred
               /\ item.pattern.stitches = <<>>
               /\ item.raised = IF inferred = <<>> THEN "none" ELSE "AttributeError"

(***************************************************************************)
(* More properties of DatasetWrapper splits.                               *)
(***************************************************************************)
NewSplitRuns ==
    {i \in 1..Len(split_runs) : split_runs[i].op = "new_split" /\ split_runs[i].status = "ok"}

\* C27: new_split records and uses the random_seed of the caller for every
\* integer seed supplied, 0 included, and falls back to a time-based seed
\* only when no seed is given.  (Checked under SpecSplit.)
C27_GivenSeedRecorded ==
    component = "split" =>
        \A i \in NewSplitRuns :
            LET run == split_runs[i]
            IN run.asked.random_seed # NoneArg
                  => run.split_info.random_seed = run.asked.random_seed

\* what holds instead: a seed other than 0 is recorded; for seed 0, as for
\* no seed, the recorded seed is the time of the call
NonzeroSeedRecorded ==
    component = "split" =>
        \A i \in NewSplitRuns :
            LET run == split_runs[i]
            IN /\ run.asked.random_seed \notin {NoneArg, 0}
                     => run.split_info.random_seed = run.asked.random_seed
               /\ run.asked.random_seed \in {NoneArg, 0}
                     => run.split_info.random_seed \in 1..MaxClock

(***************************************************************************)
(* DatasetWrapper as a partition of its dataset: splits of any             *)
(* percentages, split_info dictionaries of any content, loaders.           *)
(***************************************************************************)
InitPartition ==
    /\ component = "partition"
    /\ pattern = NoPattern
    /\ InitGarmentVars
    /\ InitCodecVars
    /\ InitBodyVars
    /\ InitDatasetVars
    /\ InitSimVars /\ InitPureVars
    /\ dataset_len \in 1..MaxLen
    /\ wrapper = NewWrapper(dataset_len)
    /\ torch_rng = 0
    /\ clock = 0
    /\ split_runs = <<>>
    /\ loaders = NoLoaders
    /\ loader_ret = NoLoaderRet
    /\ standardization = NewDataset("Garment3DPatternFullDataset")

NextPartition == new_split \/ load_split \/ new_loaders \/ get_loader

SpecPartition == InitPartition /\ [][NextPartition]_vars

(***************************************************************************)
(* Properties of the partition (checked under SpecPartition).              *)
(***************************************************************************)
\* the datapoints of a subset, none for a subset that is None
Members(subset) == IF subset = NoSubset THEN <<>> ELSE subset

\* the three subsets are pairwise disjoint and together hold every datapoint
IsPartition(w) ==
    LET all == w.training \o Members(w.validation) \o Members(w.test)
    IN /\ Len(all) = Cardinality(Range(all))
       /\ Range(all) = 0..(dataset_len - 1)

\* validation and test have the sizes their percentages ask for
SizesFollowPercents(w) ==
    /\ w.split_info.valid_percent # NoneArg
          => Len(Members(w.validation)) = percent_size(dataset_len, w.split_info.valid_percent)
    /\ w.split_info.test_percent # NoneArg
          => Len(Members(w.test)) = percent_size(dataset_len, w.split_info.test_percent)

\* every loader of a section that exists is over the current subset of it
LoadersOverCurrentSubsets ==
    /\ loaders.train # NoLoader => loaders.train.data = wrapper.training
    /\ loaders.validation # NoLoader => loaders.validation.data = wrapper.validation
    /\ loaders.test # NoLoader => loaders.test.data = wrapper.test

\* C28: after any sequence of construction, new_split, load_split and
\* new_loaders calls, training, validation and test are pairwise disjoint and
\* together cover the dataset (validation holding floor(len * valid_percent /
\* 100) datapoints, test likewise), and every existing section loader wraps
\* the current subset of its section.
C28_SubsetsPartitionDataset ==
    component = "partition" =>
        /\ IsPartition(wrapper)
        /\ SizesFollowPercents(wrapper)
        /\ LoadersOverCurrentSubsets

PercentsFit(info) ==
    percent_size(dataset_len, info.valid_percent)
        + (IF info.test_percent = NoneArg THEN 0
           ELSE percent_size(dataset_len, info.test_percent)) <= dataset_len

SplitReturned ==
    /\ component = "partition"
    /\ loader_ret.op \in {"new_split", "load_split"}
    /\ loader_ret.status = "ok"

\* a new_split, load_split or new_loaders call that returned
LoadersCallReturned ==
    /\ component = "partition"
    /\ loader_ret.op \in {"new_split", "load_split", "new_loaders"}
    /\ loader_ret.status = "ok"

\* what holds instead: after a call that returned the loaders are over the
\* current subsets (a split that assigned an empty training subset raises
\* from new_loaders and leaves the loaders of the split before), and a split
\* whose percentages ask for no more datapoints than there are is a
\* partition with the sizes asked for
PartitionWhenPercentsFit ==
    /\ LoadersCallReturned => LoadersOverCurrentSubsets
    /\ (SplitReturned /\ PercentsFit(wrapper.split_info))
          => IsPartition(wrapper) /\ SizesFollowPercents(wrapper)

\* the subsets are what load_split derives from the split_info of the wrapper
DerivedFromSplitInfo ==
    IF wrapper.split_info = NoSplitInfo
    THEN wrapper = NewWrapper(dataset_len)
    ELSE /\ wrapper.split_info.random_seed # NoneArg
         /\ load_split_value(wrapper, dataset_len, 0).wrapper = wrapper

\* a split call that raised
SplitRaised ==
    /\ component = "partition"
    /\ loader_ret'.op \in {"new_split", "load_split"}
    /\ loader_ret'.status # "ok"

\* C30: after any sequence of new_split and load_split calls, calls that
\* raise included, split_info is the specification from which the current
\* subsets were derived: a failed call leaves split_info and the subsets as
\* they were before it.
C30_SplitInfoDescribesSubsets ==
    /\ [](component = "partition" => DerivedFromSplitInfo)
    /\ [][SplitRaised => wrapper' = wrapper]_vars

\* what holds instead: split_info describes the subsets after every split
\* call that returned
SplitInfoDescribesReturnedSplit == SplitReturned => DerivedFromSplitInfo

\* the panel slot and the edge a pattern-level edge id stands for
SlotOf(id) == id \div EdgesPerSlot

EdgeOf(id) == id % EdgesPerSlot

\* the slot exists and a panel is reconstructed from it
HoldsPanel(slot) ==
    /\ slot < Len(call.args.pattern_representation)
    /\ panel_from_numeric(slot, call.args.pattern_representation[slot + 1], TRUE).status = "ok"

\* a padded decode of a stitch whose two edge ids stand for slots that hold panels
DecodedValidStitch ==
    /\ Decoded
    /\ call.args.padded
    /\ \A sd \in 1..2 : HoldsPanel(SlotOf(call.args.stitches[sd][1]))

\* C29: on decode the pattern-level edge id k * E + e is resolved to the
\* panel reconstructed from tensor slot k and to edge e of it, for every
\* input tensor, tensors in which a slot before k is skipped as an empty
\* panel included.  (Checked under SpecDecode; panel_<k> is named k.)
C29_EdgeIdResolvedToItsSlot ==
    DecodedValidStitch =>
        /\ call.ret.status = "ok"
        /\ \A sd \in 1..2 :
              call.ret.stitches[1][sd] = [panel |-> SlotOf(call.args.stitches[sd][1]),
                                          edge |-> EdgeOf(call.args.stitches[sd][1])]

\* what holds instead: slot k of an edge id is taken as a position among the
\* panels that were kept, so the id is resolved to its own slot only when no
\* slot before it is empty; otherwise it goes to a later panel or, when no
\* kept panel has that position, raises InvalidPatternDefError
EdgeIdResolvedAmongKeptPanels ==
    DecodedValidStitch =>
        LET kept == SelectSeq([i \in 1..Len(call.args.pattern_representation) |-> i - 1],
                              HoldsPanel)
            Fits(sd) == SlotOf(call.args.stitches[sd][1]) < Len(kept)
        IN IF Fits(1) /\ Fits(2)
           THEN /\ call.ret.status = "ok"
                /\ \A sd \in 1..2 :
                      call.ret.stitches[1][sd] =
                          [panel |-> kept[SlotOf(call.args.stitches[sd][1]) + 1],
                           edge |-> EdgeOf(call.args.stitches[sd][1])]
           ELSE call.ret.status = "InvalidPatternDefError"

====
